---- MODULE Spec2Model ----
(***************************************************************************)
(* Model of the healthcare snowflake normaliser (src/src/main.py):         *)
(* DataProcessor reads denormalised visit rows in batches, upserts ten     *)
(* dimension registries, appends one fact row per distinct visit id and    *)
(* finally resolves every patient's status from the visit-date history.    *)
(*                                                                         *)
(* Text is modelled by TLA+ strings; a Python dict is modelled by the      *)
(* sequence of its items in insertion order (Python dicts keep it).        *)
(***************************************************************************)
EXTENDS Integers, Sequences, FiniteSets, TLC

(***************************************************************************)
(* Bounds of the model.                                                    *)
(***************************************************************************)
MaxRows == 3
MaxBatch == 2

(***************************************************************************)
(* Text helpers (Python str operations used by the code).                  *)
(***************************************************************************)
Ch(s, i) == SubSeq(s, i, i)

Digits == "0123456789"

IsDigit(c) == \E k \in 1..10 : Ch(Digits, k) = c

DigitVal(c) == (CHOOSE k \in 1..10 : Ch(Digits, k) = c) - 1

AllDigits(s) == \A i \in 1..Len(s) : IsDigit(Ch(s, i))

RECURSIVE ToNat(_)
ToNat(s) ==
  IF Len(s) = 0 THEN 0
  ELSE 10 * ToNat(SubSeq(s, 1, Len(s) - 1)) + DigitVal(Ch(s, Len(s)))

\* "c in s" for a one-character c
Contains(s, c) == \E i \in 1..Len(s) : Ch(s, i) = c

\* s.split(sep) for a one-character separator
RECURSIVE Split(_, _)
Split(s, sep) ==
  IF ~Contains(s, sep) THEN <<s>>
  ELSE LET i == CHOOSE k \in 1..Len(s) :
                  /\ Ch(s, k) = sep
                  /\ \A j \in 1..(k - 1) : Ch(s, j) # sep
       IN <<SubSeq(s, 1, i - 1)>> \o Split(SubSeq(s, i + 1, Len(s)), sep)

\* str(n) for a natural number n
RECURSIVE Str(_)
Str(n) ==
  IF n < 10 THEN Ch(Digits, n + 1)
  ELSE Str(n \div 10) \o Ch(Digits, (n % 10) + 1)

\* zero padding of strftime's %m, %d
Pad2(n) == IF n < 10 THEN "0" \o Str(n) ELSE Str(n)

(***************************************************************************)
(* datetime.strptime / strftime for the directives the code uses.  None    *)
(* stands for the ValueError the code catches.                             *)
(***************************************************************************)
None == [none |-> TRUE]

IsLeap(y) == (y % 4 = 0 /\ y % 100 # 0) \/ y % 400 = 0

DaysInMonth(y, m) ==
  IF m = 2 THEN (IF IsLeap(y) THEN 29 ELSE 28)
  ELSE IF m \in {4, 6, 9, 11} THEN 30 ELSE 31

\* %Y : exactly four digits
MatchY(p) == Len(p) = 4 /\ AllDigits(p)
\* %m : 1[0-2]|0[1-9]|[1-9]
Matchm(p) == Len(p) \in {1, 2} /\ AllDigits(p) /\ ToNat(p) \in 1..12
\* %d : 3[01]|[12]\d|0[1-9]|[1-9]| [1-9]
Matchd(p) ==
  \/ Len(p) \in {1, 2} /\ AllDigits(p) /\ ToNat(p) \in 1..31
  \/ Len(p) = 2 /\ Ch(p, 1) = " " /\ IsDigit(Ch(p, 2)) /\ Ch(p, 2) # "0"
\* %H : 2[0-3]|[0-1]\d|\d
MatchH(p) == Len(p) \in {1, 2} /\ AllDigits(p) /\ ToNat(p) \in 0..23
\* %M : [0-5]\d|\d
MatchM(p) == Len(p) \in {1, 2} /\ AllDigits(p) /\ ToNat(p) \in 0..59
\* %S : 6[0-1]|[0-5]\d|\d
MatchS(p) == Len(p) \in {1, 2} /\ AllDigits(p) /\ ToNat(p) \in 0..61

DayVal(p) == IF Ch(p, 1) = " " THEN ToNat(Ch(p, 2)) ELSE ToNat(p)

\* the datetime constructor: ValueError on year 0 or a day the month lacks
MkDate(y, m, d) ==
  IF y >= 1 /\ d <= DaysInMonth(y, m)
  THEN [year |-> y, month |-> m, day |-> d, hour |-> 0, minute |-> 0, second |-> 0]
  ELSE None

\* strptime(s, fmt) for the three-field date formats: the fields are
\* separated by sep, the year is field yi, the month mi, the day di
StrptimeDate(s, sep, yi, mi, di) ==
  LET p == Split(s, sep) IN
  IF Len(p) = 3 /\ MatchY(p[yi]) /\ Matchm(p[mi]) /\ Matchd(p[di])
  THEN MkDate(ToNat(p[yi]), ToNat(p[mi]), DayVal(p[di]))
  ELSE None

\* strptime(s, "%H:%M:%S") or "%H:%M" (withSec = FALSE) on top of a date
StrptimeTime(dt, s, withSec) ==
  LET p == Split(s, ":") IN
  IF dt = None THEN None
  ELSE IF withSec
  THEN IF Len(p) = 3 /\ MatchH(p[1]) /\ MatchM(p[2]) /\ MatchS(p[3])
            /\ ToNat(p[3]) <= 59
       THEN [dt EXCEPT !.hour = ToNat(p[1]), !.minute = ToNat(p[2]),
                       !.second = ToNat(p[3])]
       ELSE None
  ELSE IF Len(p) = 2 /\ MatchH(p[1]) /\ MatchM(p[2])
       THEN [dt EXCEPT !.hour = ToNat(p[1]), !.minute = ToNat(p[2])]
       ELSE None

\* strptime(s, "%Y-%m-%d<sep>%H:%M[:%S]")
StrptimeDateTime(s, sep, withSec) ==
  IF ~Contains(s, sep) THEN None
  ELSE LET i == CHOOSE k \in 1..Len(s) :
                  Ch(s, k) = sep /\ \A j \in 1..(k - 1) : Ch(s, j) # sep
       IN StrptimeTime(StrptimeDate(SubSeq(s, 1, i - 1), "-", 1, 2, 3),
                       SubSeq(s, i + 1, Len(s)), withSec)

\* dt.strftime("%Y-%m-%d"): %m and %d are zero-padded to two digits; %Y is
\* the decimal year as the C library prints it, without padding (999, not 0999)
StrftimeYmd(dt) == Str(dt.year) \o "-" \o Pad2(dt.month) \o "-" \o Pad2(dt.day)

(***************************************************************************)
(* DATE_FORMATS: the layouts of parse_date in priority order, each with    *)
(* its structural pre-check.                                               *)
(***************************************************************************)
DATE_FORMATS == <<"%Y-%m-%d", "%m/%d/%Y", "%d-%m-%Y", "%Y/%m/%d">>

FormatCondition(fmt, x) ==
  CASE fmt = "%Y-%m-%d" -> TRUE
    [] fmt = "%m/%d/%Y" -> Contains(x, "/")
    [] fmt = "%d-%m-%Y" -> Contains(x, "-") /\ Len(Split(x, "-")) = 3
    [] fmt = "%Y/%m/%d" -> Contains(x, "/") /\ Len(x) >= 8

StrptimeFmt(x, fmt) ==
  CASE fmt = "%Y-%m-%d" -> StrptimeDate(x, "-", 1, 2, 3)
    [] fmt = "%m/%d/%Y" -> StrptimeDate(x, "/", 3, 1, 2)
    [] fmt = "%d-%m-%Y" -> StrptimeDate(x, "-", 3, 2, 1)
    [] fmt = "%Y/%m/%d" -> StrptimeDate(x, "/", 1, 2, 3)

RECURSIVE TryFormats(_, _)
TryFormats(date_str, k) ==
  IF k > Len(DATE_FORMATS) THEN date_str
  ELSE IF FormatCondition(DATE_FORMATS[k], date_str)
          /\ StrptimeFmt(date_str, DATE_FORMATS[k]) # None
       THEN StrftimeYmd(StrptimeFmt(date_str, DATE_FORMATS[k]))
       ELSE TryFormats(date_str, k + 1)

parse_date(date_str) == IF date_str = "" THEN "" ELSE TryFormats(date_str, 1)

\* the three time-bearing layouts of _parse_datetime, tried in order on the
\* text before the first "."
TimeLayouts(s) ==
  LET h == Split(s, ".")[1] IN
  <<StrptimeDateTime(h, "T", TRUE), StrptimeDateTime(h, " ", TRUE),
    StrptimeDateTime(h, " ", FALSE)>>

_parse_datetime(datetime_str) ==
  IF datetime_str = "" THEN None
  ELSE LET t == IF Contains(datetime_str, "T") \/ Contains(datetime_str, " ")
                THEN TimeLayouts(datetime_str) ELSE <<>>
           hit == {k \in 1..Len(t) : t[k] # None}
       IN IF hit # {} THEN t[CHOOSE k \in hit : \A j \in hit : k <= j]
          ELSE StrptimeDate(parse_date(datetime_str), "-", 1, 2, 3)

ACTIVE_START_DATE ==
  [year |-> 2022, month |-> 1, day |-> 1, hour |-> 0, minute |-> 0, second |-> 0]

DtTuple(dt) == <<dt.year, dt.month, dt.day, dt.hour, dt.minute, dt.second>>

\* a >= b on datetimes
RECURSIVE TupleGeq(_, _)
TupleGeq(a, b) ==
  IF Len(a) = 0 THEN TRUE
  ELSE IF Head(a) # Head(b) THEN Head(a) > Head(b)
  ELSE TupleGeq(Tail(a), Tail(b))

DtGeq(a, b) == TupleGeq(DtTuple(a), DtTuple(b))

(***************************************************************************)
(* float(text) and int(float): a float is modelled by its decimal reading. *)
(* The text grammar is sign? (digits ("." digits?)? | "." digits | inf |    *)
(* infinity | nan); any other text is the ValueError of float().           *)
(***************************************************************************)
FloatZero == [kind |-> "num", neg |-> FALSE, int |-> 0, frac |-> ""]

RECURSIVE StripZeros(_)
StripZeros(s) ==
  IF Len(s) > 0 /\ Ch(s, Len(s)) = "0" THEN StripZeros(SubSeq(s, 1, Len(s) - 1))
  ELSE s

ParseUnsigned(t, neg) ==
  LET p == Split(t, ".") IN
  IF t \in {"inf", "infinity", "Infinity", "INF"}
  THEN [kind |-> "inf", neg |-> neg, int |-> 0, frac |-> ""]
  ELSE IF t \in {"nan", "NaN", "NAN"}
  THEN [kind |-> "nan", neg |-> neg, int |-> 0, frac |-> ""]
  ELSE IF /\ Len(p) \in {1, 2}
          /\ \A k \in 1..Len(p) : AllDigits(p[k])
          /\ \E k \in 1..Len(p) : Len(p[k]) > 0
  THEN [kind |-> "num", neg |-> neg, int |-> ToNat(p[1]),
        frac |-> IF Len(p) = 2 THEN StripZeros(p[2]) ELSE ""]
  ELSE [kind |-> "ValueError", neg |-> FALSE, int |-> 0, frac |-> ""]

PyFloat(text) ==
  IF Len(text) > 0 /\ Ch(text, 1) \in {"+", "-"}
  THEN ParseUnsigned(SubSeq(text, 2, Len(text)), Ch(text, 1) = "-")
  ELSE ParseUnsigned(text, FALSE)

_safe_float(value) ==
  IF value = "" THEN FloatZero
  ELSE IF PyFloat(value).kind = "ValueError" THEN FloatZero
  ELSE PyFloat(value)

\* int(float(text)) of _process_prescription: the OverflowError of
\* int(inf) is not among the exceptions the code catches
DurationRaises(text) == PyFloat(text).kind = "inf"

DurationDays(text) ==
  LET f == PyFloat(text) IN
  IF f.kind = "num" THEN (IF f.neg THEN 0 - f.int ELSE f.int) ELSE 0

(***************************************************************************)
(* Python dicts: the sequence of items [k, v] in insertion order.          *)
(***************************************************************************)
Keys(d) == {d[n].k : n \in 1..Len(d)}

Has(d, key) == \E n \in 1..Len(d) : d[n].k = key

Get(d, key) == d[CHOOSE n \in 1..Len(d) : d[n].k = key].v

\* d[key] = val
Put(d, key, val) ==
  IF Has(d, key)
  THEN [n \in 1..Len(d) |-> IF d[n].k = key THEN [k |-> key, v |-> val] ELSE d[n]]
  ELSE Append(d, [k |-> key, v |-> val])

\* list(d.values())
Values(d) == [n \in 1..Len(d) |-> d[n].v]

(***************************************************************************)
(* Input rows.  A row is the field-name-to-text mapping csv.DictReader     *)
(* delivers.  The reader draws each row from RowPool: two visit ids        *)
(* combined with every profile, so that any profile can repeat the visit   *)
(* id, patient id or dimension ids of any other with different payloads,   *)
(* and a third visit id for two rows whose visit date does not parse.      *)
(***************************************************************************)
VisitIds == {"V1", "V2"}

Visit(dt, ty) == [visit_datetime |-> dt, visit_type |-> ty]

Patient(id, first, dob) ==
  [patient_id |-> id, patient_first_name |-> first, patient_last_name |-> "Lee",
   patient_date_of_birth |-> dob, patient_gender |-> "F",
   patient_address_line1 |-> "1 Elm St", patient_address_line2 |-> "Apt 2",
   patient_city |-> "Troy", patient_state |-> "NY", patient_zip |-> "12180",
   patient_phone |-> "555-0100", patient_email |-> first \o "@x.org"]

Insurance(id, payer) ==
  [insurance_id |-> id, insurance_payer_name |-> payer,
   insurance_policy_number |-> IF id = "" THEN "" ELSE "PN-" \o payer,
   insurance_group_number |-> IF id = "" THEN "" ELSE "GN-" \o payer,
   insurance_plan_type |-> IF id = "" THEN "" ELSE "HMO"]

Billing(id, paid, total, date, status) ==
  [billing_id |-> id, billing_amount_paid |-> paid, billing_total_charge |-> total,
   billing_date |-> date, billing_payment_status |-> status]

Provider(name, title, dept) ==
  [doctor_name |-> name, doctor_title |-> title, doctor_department |-> dept]

Location(clinic, room) == [clinic_name |-> clinic, room_number |-> room]

PrimaryDx(code, desc) ==
  [primary_diagnosis_code |-> code, primary_diagnosis_desc |-> desc]

SecondaryDx(code, desc) ==
  [secondary_diagnosis_code |-> code, secondary_diagnosis_desc |-> desc]

Treatment(code, desc) == [treatment_code |-> code, treatment_desc |-> desc]

Prescription(id, drug, dosage, freq, days) ==
  [prescription_id |-> id, prescription_drug_name |-> drug,
   prescription_dosage |-> dosage, prescription_frequency |-> freq,
   prescription_duration_days |-> days]

LabOrder(id, code, name, value, units, date) ==
  [lab_order_id |-> id, lab_test_code |-> code, lab_name |-> name,
   lab_result_value |-> value, lab_result_units |-> units,
   lab_result_date |-> date]

\* a recent visit with every dimension filled in
ProfileA ==
  Visit("2022-05-01", "Checkup") @@ Patient("P1", "Ann", "03/15/1980")
  @@ Insurance("I1", "Acme") @@ Billing("B1", "12.50", "100", "2022/05/02", "Paid")
  @@ Provider("Ann", "MD|X", "Card") @@ Location("Main", "101")
  @@ PrimaryDx("E11", "Diabetes") @@ SecondaryDx("I10", "Hypertension")
  @@ Treatment("T01", "Insulin")
  @@ Prescription("RX1", "Aspirin", "10mg", "daily", "7")
  @@ LabOrder("L1", "CBC", "Blood count", "4.5", "g/dL", "05/03/2022")

\* an old visit repeating every id of ProfileA with a different payload; its
\* provider fields join to the same key text as ProfileA's
ProfileB ==
  Visit("2019-01-01", "Followup") @@ Patient("P1", "Anna", "1980-03-15")
  @@ Insurance("I1", "Other") @@ Billing("B1", "abc", "", "31-12-2018", "Due")
  @@ Provider("Ann|MD", "X", "Card") @@ Location("Main", "101")
  @@ PrimaryDx("E11", "Diabetes") @@ SecondaryDx("", "")
  @@ Treatment("T01", "")
  @@ Prescription("RX1", "", "", "", "")
  @@ LabOrder("L1", "", "", "", "", "")

\* a visit whose date does not parse and whose dimensions are absent or
\* incomplete
ProfileC ==
  Visit("not-a-date", "Walkin") @@ Patient("P2", "Bob", "")
  @@ Insurance("", "") @@ Billing("B2", "", "5", "", "Open")
  @@ Provider("Bob", "", "Derm") @@ Location("", "7")
  @@ PrimaryDx("", "") @@ SecondaryDx("", "Asthma")
  @@ Treatment("", "")
  @@ Prescription("RX2", "", "", "", "0")
  @@ LabOrder("", "", "", "", "", "")

\* a visit at the very start of the active period, with a time part
ProfileD ==
  Visit("2022-01-01T00:00:00", "ER") @@ Patient("P2", "Rob", "garbage")
  @@ Insurance("I1", "Zed") @@ Billing("B2", "inf", "1.5", "2022-01-02", "Paid")
  @@ Provider("Bob", "DO", "Derm") @@ Location("East", "7")
  @@ PrimaryDx("I10", "Hypertension") @@ SecondaryDx("E11", "Diabetes")
  @@ Treatment("T02", "Rest")
  @@ Prescription("RX2", "Ibuprofen", "", "", "abc")
  @@ LabOrder("L2", "", "", "", "", "2022/01/02")

\* a visit just before the active period whose prescription duration is
\* not finite
ProfileE ==
  Visit("2021-12-31 23:59", "Checkup") @@ Patient("P1", "Ann", "03/15/1980")
  @@ Insurance("I2", "Acme") @@ Billing("", "", "", "", "")
  @@ Provider("Cy", "MD", "Onc") @@ Location("West", "3")
  @@ PrimaryDx("C50", "") @@ SecondaryDx("", "")
  @@ Treatment("T03", "Chemo")
  @@ Prescription("RX3", "Aspirin", "", "", "inf")
  @@ LabOrder("L1", "BMP", "", "", "", "")

\* ProfileE with a visit date in no layout the code knows
ProfileF == [ProfileE EXCEPT !.visit_datetime = "31/12/2021"]

Profiles == {ProfileA, ProfileB, ProfileC, ProfileD, ProfileE}

RowPool ==
  {[visit_id |-> v] @@ p : v \in VisitIds, p \in Profiles}
    \cup {[visit_id |-> "V3"] @@ ProfileC, [visit_id |-> "V3"] @@ ProfileF}

(***************************************************************************)
(* DataProcessor.  A processor state s is the record of the object's       *)
(* fields; each _process_* method is an operator from a state and a row to *)
(* the state it leaves and the value it returns.                           *)
(***************************************************************************)
NewProcessor ==
  [patients |-> <<>>, insurances |-> <<>>, billings |-> <<>>,
   providers |-> <<>>, locations |-> <<>>, primary_diagnoses |-> <<>>,
   secondary_diagnoses |-> <<>>, treatments |-> <<>>, prescriptions |-> <<>>,
   lab_orders |-> <<>>, visits |-> <<>>,
   provider_lookup |-> <<>>, location_lookup |-> <<>>,
   primary_diagnosis_lookup |-> <<>>, secondary_diagnosis_lookup |-> <<>>,
   treatment_lookup |-> <<>>,
   processed_visit_ids |-> {}, patient_visit_dates |-> <<>>]

_process_patient(s, row, patient_id) ==
  [s EXCEPT !.patients = Put(@, patient_id,
     [patient_id |-> patient_id,
      patient_first_name |-> row.patient_first_name,
      patient_last_name |-> row.patient_last_name,
      patient_date_of_birth |-> parse_date(row.patient_date_of_birth),
      patient_gender |-> row.patient_gender,
      patient_address_line1 |-> row.patient_address_line1,
      patient_address_line2 |-> row.patient_address_line2,
      patient_city |-> row.patient_city,
      patient_state |-> row.patient_state,
      patient_zip |-> row.patient_zip,
      patient_phone |-> row.patient_phone,
      patient_email |-> row.patient_email,
      patient_status |-> "Active"])]

\* the bug of storing the record without the "not in self.insurances" test
_process_insurance_last_wins(s, row, patient_id) ==
  LET insurance_id == row.insurance_id IN
  [self |-> IF insurance_id # ""
            THEN [s EXCEPT !.insurances = Put(@, insurance_id,
                   [insurance_id |-> insurance_id,
                    patient_id |-> patient_id,
                    insurance_payer_name |-> row.insurance_payer_name,
                    insurance_policy_number |-> row.insurance_policy_number,
                    insurance_group_number |-> row.insurance_group_number,
                    insurance_plan_type |-> row.insurance_plan_type])]
            ELSE s,
   ret |-> insurance_id]

_process_insurance(s, row, patient_id) ==
  LET insurance_id == row.insurance_id IN
  [self |-> IF insurance_id # "" /\ ~Has(s.insurances, insurance_id)
            THEN [s EXCEPT !.insurances = Put(@, insurance_id,
                   [insurance_id |-> insurance_id,
                    patient_id |-> patient_id,
                    insurance_payer_name |-> row.insurance_payer_name,
                    insurance_policy_number |-> row.insurance_policy_number,
                    insurance_group_number |-> row.insurance_group_number,
                    insurance_plan_type |-> row.insurance_plan_type])]
            ELSE s,
   ret |-> insurance_id]

\* the bug of storing the record without the "not in self.billings" test
_process_billing_last_wins(s, row, insurance_id) ==
  LET billing_id == row.billing_id IN
  [self |-> IF billing_id # ""
            THEN [s EXCEPT !.billings = Put(@, billing_id,
                   [billing_id |-> billing_id,
                    insurance_id |-> insurance_id,
                    billing_amount_paid |-> _safe_float(row.billing_amount_paid),
                    billing_total_charge |-> _safe_float(row.billing_total_charge),
                    billing_date |-> parse_date(row.billing_date),
                    billing_payment_status |-> row.billing_payment_status])]
            ELSE s,
   ret |-> billing_id]

_process_billing(s, row, insurance_id) ==
  LET billing_id == row.billing_id IN
  [self |-> IF billing_id # "" /\ ~Has(s.billings, billing_id)
            THEN [s EXCEPT !.billings = Put(@, billing_id,
                   [billing_id |-> billing_id,
                    insurance_id |-> insurance_id,
                    billing_amount_paid |-> _safe_float(row.billing_amount_paid),
                    billing_total_charge |-> _safe_float(row.billing_total_charge),
                    billing_date |-> parse_date(row.billing_date),
                    billing_payment_status |-> row.billing_payment_status])]
            ELSE s,
   ret |-> billing_id]

\* the bug of testing the required fields with "or" instead of "and"
_process_provider_any_field(s, row) ==
  LET doctor_name == row.doctor_name
      doctor_title == row.doctor_title
      doctor_department == row.doctor_department
      doctor_key == doctor_name \o "|" \o doctor_title \o "|" \o doctor_department
      provider_id == Len(s.providers) + 1
      s1 == IF ~Has(s.provider_lookup, doctor_key)
            THEN [s EXCEPT !.provider_lookup = Put(@, doctor_key, provider_id),
                           !.providers = Put(@, provider_id,
                              [provider_id |-> provider_id,
                               doctor_name |-> doctor_name,
                               doctor_title |-> doctor_title,
                               doctor_department |-> doctor_department])]
            ELSE s
  IN IF ~(doctor_name # "" \/ doctor_title # "" \/ doctor_department # "")
     THEN [self |-> s, ret |-> 0]
     ELSE [self |-> s1, ret |-> Get(s1.provider_lookup, doctor_key)]

_process_provider(s, row) ==
  LET doctor_name == row.doctor_name
      doctor_title == row.doctor_title
      doctor_department == row.doctor_department
      doctor_key == doctor_name \o "|" \o doctor_title \o "|" \o doctor_department
      provider_id == Len(s.providers) + 1
      s1 == IF ~Has(s.provider_lookup, doctor_key)
            THEN [s EXCEPT !.provider_lookup = Put(@, doctor_key, provider_id),
                           !.providers = Put(@, provider_id,
                              [provider_id |-> provider_id,
                               doctor_name |-> doctor_name,
                               doctor_title |-> doctor_title,
                               doctor_department |-> doctor_department])]
            ELSE s
  IN IF ~(doctor_name # "" /\ doctor_title # "" /\ doctor_department # "")
     THEN [self |-> s, ret |-> 0]
     ELSE [self |-> s1, ret |-> Get(s1.provider_lookup, doctor_key)]

\* the bug of numbering from 0: len(self.locations) without the + 1
_process_location_from_zero(s, row) ==
  LET clinic_name == row.clinic_name
      room_number == row.room_number
      location_key == clinic_name \o "|" \o room_number
      location_id == Len(s.locations)
      s1 == IF ~Has(s.location_lookup, location_key)
            THEN [s EXCEPT !.location_lookup = Put(@, location_key, location_id),
                           !.locations = Put(@, location_id,
                              [location_id |-> location_id,
                               clinic_name |-> clinic_name,
                               room_number |-> room_number])]
            ELSE s
  IN IF ~(clinic_name # "" /\ room_number # "")
     THEN [self |-> s, ret |-> 0]
     ELSE [self |-> s1, ret |-> Get(s1.location_lookup, location_key)]

_process_location(s, row) ==
  LET clinic_name == row.clinic_name
      room_number == row.room_number
      location_key == clinic_name \o "|" \o room_number
      location_id == Len(s.locations) + 1
      s1 == IF ~Has(s.location_lookup, location_key)
            THEN [s EXCEPT !.location_lookup = Put(@, location_key, location_id),
                           !.locations = Put(@, location_id,
                              [location_id |-> location_id,
                               clinic_name |-> clinic_name,
                               room_number |-> room_number])]
            ELSE s
  IN IF ~(clinic_name # "" /\ room_number # "")
     THEN [self |-> s, ret |-> 0]
     ELSE [self |-> s1, ret |-> Get(s1.location_lookup, location_key)]

\* the bug of storing a record without the "not in
\* self.primary_diagnosis_lookup" test
_process_primary_diagnosis_always_new(s, row) ==
  LET primary_diagnosis_code == row.primary_diagnosis_code
      primary_diagnosis_desc == row.primary_diagnosis_desc
      primary_diagnosis_key == primary_diagnosis_code \o "|" \o primary_diagnosis_desc
      primary_diagnosis_id == Len(s.primary_diagnoses) + 1
      s1 == [s EXCEPT
               !.primary_diagnosis_lookup =
                  Put(@, primary_diagnosis_key, primary_diagnosis_id),
               !.primary_diagnoses = Put(@, primary_diagnosis_id,
                  [primary_diagnosis_id |-> primary_diagnosis_id,
                   primary_diagnosis_code |-> primary_diagnosis_code,
                   primary_diagnosis_desc |-> primary_diagnosis_desc])]
  IN IF ~(primary_diagnosis_code # "" \/ primary_diagnosis_desc # "")
     THEN [self |-> s, ret |-> ""]
     ELSE [self |-> s1,
           ret |-> Str(Get(s1.primary_diagnosis_lookup, primary_diagnosis_key))]

_process_primary_diagnosis(s, row) ==
  LET primary_diagnosis_code == row.primary_diagnosis_code
      primary_diagnosis_desc == row.primary_diagnosis_desc
      primary_diagnosis_key == primary_diagnosis_code \o "|" \o primary_diagnosis_desc
      primary_diagnosis_id == Len(s.primary_diagnoses) + 1
      s1 == IF ~Has(s.primary_diagnosis_lookup, primary_diagnosis_key)
            THEN [s EXCEPT
                   !.primary_diagnosis_lookup =
                      Put(@, primary_diagnosis_key, primary_diagnosis_id),
                   !.primary_diagnoses = Put(@, primary_diagnosis_id,
                      [primary_diagnosis_id |-> primary_diagnosis_id,
                       primary_diagnosis_code |-> primary_diagnosis_code,
                       primary_diagnosis_desc |-> primary_diagnosis_desc])]
            ELSE s
  IN IF ~(primary_diagnosis_code # "" \/ primary_diagnosis_desc # "")
     THEN [self |-> s, ret |-> ""]
     ELSE [self |-> s1,
           ret |-> Str(Get(s1.primary_diagnosis_lookup, primary_diagnosis_key))]

_process_secondary_diagnosis(s, row) ==
  LET secondary_diagnosis_code == row.secondary_diagnosis_code
      secondary_diagnosis_desc == row.secondary_diagnosis_desc
      secondary_diagnosis_key ==
        secondary_diagnosis_code \o "|" \o secondary_diagnosis_desc
      secondary_diagnosis_id == Len(s.secondary_diagnoses) + 1
      s1 == IF ~Has(s.secondary_diagnosis_lookup, secondary_diagnosis_key)
            THEN [s EXCEPT
                   !.secondary_diagnosis_lookup =
                      Put(@, secondary_diagnosis_key, secondary_diagnosis_id),
                   !.secondary_diagnoses = Put(@, secondary_diagnosis_id,
                      [secondary_diagnosis_id |-> secondary_diagnosis_id,
                       secondary_diagnosis_code |-> secondary_diagnosis_code,
                       secondary_diagnosis_desc |-> secondary_diagnosis_desc])]
            ELSE s
  IN IF ~(secondary_diagnosis_code # "" \/ secondary_diagnosis_desc # "")
     THEN [self |-> s, ret |-> ""]
     ELSE [self |-> s1,
           ret |-> Str(Get(s1.secondary_diagnosis_lookup, secondary_diagnosis_key))]

\* the bug of testing the fields with "and" instead of "or"
_process_treatment_requires_both(s, row) ==
  LET treatment_code == row.treatment_code
      treatment_desc == row.treatment_desc
      treatment_key == treatment_code \o "|" \o treatment_desc
      treatment_id == Len(s.treatments) + 1
      s1 == IF ~Has(s.treatment_lookup, treatment_key)
            THEN [s EXCEPT !.treatment_lookup = Put(@, treatment_key, treatment_id),
                           !.treatments = Put(@, treatment_id,
                              [treatment_id |-> treatment_id,
                               treatment_code |-> treatment_code,
                               treatment_desc |-> treatment_desc])]
            ELSE s
  IN IF ~(treatment_code # "" /\ treatment_desc # "")
     THEN [self |-> s, ret |-> ""]
     ELSE [self |-> s1, ret |-> Str(Get(s1.treatment_lookup, treatment_key))]

_process_treatment(s, row) ==
  LET treatment_code == row.treatment_code
      treatment_desc == row.treatment_desc
      treatment_key == treatment_code \o "|" \o treatment_desc
      treatment_id == Len(s.treatments) + 1
      s1 == IF ~Has(s.treatment_lookup, treatment_key)
            THEN [s EXCEPT !.treatment_lookup = Put(@, treatment_key, treatment_id),
                           !.treatments = Put(@, treatment_id,
                              [treatment_id |-> treatment_id,
                               treatment_code |-> treatment_code,
                               treatment_desc |-> treatment_desc])]
            ELSE s
  IN IF ~(treatment_code # "" \/ treatment_desc # "")
     THEN [self |-> s, ret |-> ""]
     ELSE [self |-> s1, ret |-> Str(Get(s1.treatment_lookup, treatment_key))]

\* "at least one field with data" of _process_prescription
prescription_has_data(row) ==
  \/ row.prescription_drug_name # ""
  \/ row.prescription_dosage # ""
  \/ row.prescription_frequency # ""
  \/ DurationDays(row.prescription_duration_days) # 0

prescription_record(row) ==
  [prescription_id |-> row.prescription_id,
   prescription_drug_name |-> row.prescription_drug_name,
   prescription_dosage |-> row.prescription_dosage,
   prescription_frequency |-> row.prescription_frequency,
   prescription_duration_days |-> DurationDays(row.prescription_duration_days)]

\* the bug of returning the source id although nothing was materialised
_process_prescription_keeps_id(s, row) ==
  LET prescription_id == row.prescription_id
  IN IF prescription_id = "" THEN [self |-> s, ret |-> "", raised |-> FALSE]
     ELSE IF Has(s.prescriptions, prescription_id)
     THEN [self |-> s, ret |-> prescription_id, raised |-> FALSE]
     ELSE IF DurationRaises(row.prescription_duration_days)
     THEN [self |-> s, ret |-> "", raised |-> TRUE]
     ELSE IF prescription_has_data(row)
     THEN [self |-> [s EXCEPT !.prescriptions =
                        Put(@, prescription_id, prescription_record(row))],
           ret |-> prescription_id, raised |-> FALSE]
     ELSE [self |-> s, ret |-> prescription_id, raised |-> FALSE]

\* raised: the OverflowError that leaves the method (and the run)
_process_prescription(s, row) ==
  LET prescription_id == row.prescription_id
  IN IF prescription_id = "" THEN [self |-> s, ret |-> "", raised |-> FALSE]
     ELSE IF Has(s.prescriptions, prescription_id)
     THEN [self |-> s, ret |-> prescription_id, raised |-> FALSE]
     ELSE IF DurationRaises(row.prescription_duration_days)
     THEN [self |-> s, ret |-> "", raised |-> TRUE]
     ELSE IF prescription_has_data(row)
     THEN [self |-> [s EXCEPT !.prescriptions =
                        Put(@, prescription_id, prescription_record(row))],
           ret |-> prescription_id, raised |-> FALSE]
     ELSE [self |-> s, ret |-> "", raised |-> FALSE]

\* "at least one field with data" of _process_lab_order
lab_order_has_data(row) ==
  \/ row.lab_test_code # ""
  \/ row.lab_name # ""
  \/ row.lab_result_value # ""
  \/ row.lab_result_units # ""
  \/ row.lab_result_date # ""

lab_order_record(row) ==
  [lab_order_id |-> row.lab_order_id,
   lab_test_code |-> row.lab_test_code,
   lab_name |-> row.lab_name,
   lab_result_value |-> row.lab_result_value,
   lab_result_units |-> row.lab_result_units,
   lab_result_date |-> parse_date(row.lab_result_date)]

\* the bug of testing the row's data before looking the id up
_process_lab_order_requires_data(s, row) ==
  LET lab_order_id == row.lab_order_id
  IN IF lab_order_id = "" THEN [self |-> s, ret |-> ""]
     ELSE IF ~lab_order_has_data(row)
     THEN [self |-> s, ret |-> ""]
     ELSE IF Has(s.lab_orders, lab_order_id)
     THEN [self |-> s, ret |-> lab_order_id]
     ELSE [self |-> [s EXCEPT !.lab_orders =
                        Put(@, lab_order_id, lab_order_record(row))],
           ret |-> lab_order_id]

_process_lab_order(s, row) ==
  LET lab_order_id == row.lab_order_id
  IN IF lab_order_id = "" THEN [self |-> s, ret |-> ""]
     ELSE IF Has(s.lab_orders, lab_order_id)
     THEN [self |-> s, ret |-> lab_order_id]
     ELSE IF lab_order_has_data(row)
     THEN [self |-> [s EXCEPT !.lab_orders =
                        Put(@, lab_order_id, lab_order_record(row))],
           ret |-> lab_order_id]
     ELSE [self |-> s, ret |-> ""]

\* self.patient_visit_dates[patient_id].append(visit_date) on a defaultdict
AppendVisitDate(d, patient_id, visit_date) ==
  Put(d, patient_id,
      Append(IF Has(d, patient_id) THEN Get(d, patient_id) ELSE <<>>, visit_date))

\* The nine dimension upserts of _process_row, in the order of the code.
\* acc carries the processor state (self), the foreign keys returned so far
\* and raised: an exception has left the method.
Upsert(k, acc, row) ==
  CASE k = 1 ->
         LET r == _process_insurance(acc.self, row, row.patient_id)
         IN [acc EXCEPT !.self = r.self, !.insurance_id = r.ret]
    [] k = 2 ->
         LET r == _process_billing(acc.self, row, acc.insurance_id)
         IN [acc EXCEPT !.self = r.self, !.billing_id = r.ret]
    [] k = 3 ->
         LET r == _process_provider(acc.self, row)
         IN [acc EXCEPT !.self = r.self, !.provider_id = r.ret]
    [] k = 4 ->
         LET r == _process_location(acc.self, row)
         IN [acc EXCEPT !.self = r.self, !.location_id = r.ret]
    [] k = 5 ->
         LET r == _process_primary_diagnosis(acc.self, row)
         IN [acc EXCEPT !.self = r.self, !.primary_diagnosis_id = r.ret]
    [] k = 6 ->
         LET r == _process_secondary_diagnosis(acc.self, row)
         IN [acc EXCEPT !.self = r.self, !.secondary_diagnosis_id = r.ret]
    [] k = 7 ->
         LET r == _process_treatment(acc.self, row)
         IN [acc EXCEPT !.self = r.self, !.treatment_id = r.ret]
    [] k = 8 ->
         LET r == _process_prescription(acc.self, row)
         IN [acc EXCEPT !.self = r.self, !.prescription_id = r.ret,
                        !.raised = r.raised]
    [] k = 9 ->
         LET r == _process_lab_order(acc.self, row)
         IN [acc EXCEPT !.self = r.self, !.lab_order_id = r.ret]

RECURSIVE Upserts(_, _, _)
Upserts(acc, row, k) ==
  IF k > 9 \/ acc.raised THEN acc
  ELSE Upserts(Upsert(k, acc, row), row, k + 1)

\* the state _process_row has reached when it starts on the dimensions:
\* visit id marked, patient inserted if new, visit date recorded if parsed
TrackVisit(s, row) ==
  LET patient_id == row.patient_id
      visit_date == _parse_datetime(row.visit_datetime)
      s1 == [s EXCEPT !.processed_visit_ids = @ \cup {row.visit_id}]
      s2 == IF ~Has(s.patients, patient_id)
            THEN _process_patient(s1, row, patient_id) ELSE s1
  IN IF visit_date # None
     THEN [s2 EXCEPT !.patient_visit_dates =
                        AppendVisitDate(@, patient_id, visit_date)]
     ELSE s2

\* the end of _process_row: the fact row is appended, unless an exception
\* has left the method
AddVisitFact(acc, row) ==
  IF acc.raised THEN [self |-> acc.self, raised |-> TRUE]
  ELSE [self |-> [acc.self EXCEPT !.visits = Append(@,
                   [visit_id |-> row.visit_id,
                    patient_id |-> row.patient_id,
                    insurance_id |-> acc.insurance_id,
                    billing_id |-> acc.billing_id,
                    provider_id |-> acc.provider_id,
                    location_id |-> acc.location_id,
                    primary_diagnosis_id |-> acc.primary_diagnosis_id,
                    secondary_diagnosis_id |-> acc.secondary_diagnosis_id,
                    treatment_id |-> acc.treatment_id,
                    prescription_id |-> acc.prescription_id,
                    lab_order_id |-> acc.lab_order_id,
                    visit_datetime |-> row.visit_datetime,
                    visit_type |-> row.visit_type])],
        raised |-> FALSE]

\* the bug of leaving out the "visit_id in self.processed_visit_ids" test
_process_row_no_dedup(s, row) ==
  AddVisitFact(
    Upserts([self |-> TrackVisit(s, row), raised |-> FALSE,
             insurance_id |-> "", billing_id |-> "",
             provider_id |-> 0, location_id |-> 0,
             primary_diagnosis_id |-> "",
             secondary_diagnosis_id |-> "", treatment_id |-> "",
             prescription_id |-> "", lab_order_id |-> ""], row, 1),
    row)

\* raised: an exception left _process_row; self is the state it left behind
_process_row(s, row) ==
  IF row.visit_id \in s.processed_visit_ids
  THEN [self |-> s, raised |-> FALSE]
  ELSE AddVisitFact(
         Upserts([self |-> TrackVisit(s, row), raised |-> FALSE,
                  insurance_id |-> "", billing_id |-> "",
                  provider_id |-> 0, location_id |-> 0,
                  primary_diagnosis_id |-> "",
                  secondary_diagnosis_id |-> "", treatment_id |-> "",
                  prescription_id |-> "", lab_order_id |-> ""], row, 1),
         row)

(***************************************************************************)
(* Status Resolver.  st carries the patient registry and, per patient, the *)
(* number of assignments to patient_status made by the resolver.           *)
(***************************************************************************)
Count(w, patient_id) == IF Has(w, patient_id) THEN Get(w, patient_id) ELSE 0

SetStatus(st, patient_id, status) ==
  [patients |-> Put(st.patients, patient_id,
                    [Get(st.patients, patient_id) EXCEPT !.patient_status = status]),
   writes |-> Put(st.writes, patient_id, Count(st.writes, patient_id) + 1)]

\* the bug of comparing with > instead of >=
has_recent_visits_strict(visits) ==
  \E n \in 1..Len(visits) :
    DtGeq(visits[n], ACTIVE_START_DATE) /\ visits[n] # ACTIVE_START_DATE

has_recent_visits(visits) ==
  \E n \in 1..Len(visits) : DtGeq(visits[n], ACTIVE_START_DATE)

\* for patient_id, visits in self.patient_visit_dates.items()
RECURSIVE HistoryLoop(_, _, _)
HistoryLoop(st, history, n) ==
  IF n > Len(history) THEN st
  ELSE HistoryLoop(
         IF Has(st.patients, history[n].k)
         THEN SetStatus(st, history[n].k,
                        IF has_recent_visits(history[n].v) THEN "Active"
                        ELSE "Inactive")
         ELSE st,
         history, n + 1)

\* the bug of leaving out the "not in self.patient_visit_dates" test
RECURSIVE NoHistoryLoop_all_patients(_, _, _)
NoHistoryLoop_all_patients(st, history, n) ==
  IF n > Len(st.patients) THEN st
  ELSE NoHistoryLoop_all_patients(
         SetStatus(st, st.patients[n].k, "Inactive"), history, n + 1)

\* for patient_id in self.patients
RECURSIVE NoHistoryLoop(_, _, _)
NoHistoryLoop(st, history, n) ==
  IF n > Len(st.patients) THEN st
  ELSE NoHistoryLoop(
         IF ~Has(history, st.patients[n].k)
         THEN SetStatus(st, st.patients[n].k, "Inactive")
         ELSE st,
         history, n + 1)

_update_patient_statuses(st, history) ==
  NoHistoryLoop(HistoryLoop(st, history, 1), history, 1)

(***************************************************************************)
(* Table Emitter (write_csv_files) and the verifier's referential check.   *)
(* A file is the sequence of its lines, a line the sequence of its cells   *)
(* (text); line 1 is the header.  csv.DictWriter writes str(value) for     *)
(* every cell, and csv.DictReader gives the cell texts back under the      *)
(* header's column names.                                                  *)
(***************************************************************************)
SCHEMAS ==
  [DimPatient |->
     <<"patient_id", "patient_first_name", "patient_last_name",
       "patient_date_of_birth", "patient_gender", "patient_address_line1",
       "patient_address_line2", "patient_city", "patient_state", "patient_zip",
       "patient_phone", "patient_email", "patient_status">>,
   DimInsurance |->
     <<"insurance_id", "patient_id", "insurance_payer_name",
       "insurance_policy_number", "insurance_group_number",
       "insurance_plan_type">>,
   DimBilling |->
     <<"billing_id", "insurance_id", "billing_amount_paid",
       "billing_total_charge", "billing_date", "billing_payment_status">>,
   DimProvider |->
     <<"provider_id", "doctor_name", "doctor_title", "doctor_department">>,
   DimLocation |-> <<"location_id", "clinic_name", "room_number">>,
   DimPrimaryDiagnosis |->
     <<"primary_diagnosis_id", "primary_diagnosis_code",
       "primary_diagnosis_desc">>,
   DimSecondaryDiagnosis |->
     <<"secondary_diagnosis_id", "secondary_diagnosis_code",
       "secondary_diagnosis_desc">>,
   DimTreatment |-> <<"treatment_id", "treatment_code", "treatment_desc">>,
   DimPrescription |->
     <<"prescription_id", "prescription_drug_name", "prescription_dosage",
       "prescription_frequency", "prescription_duration_days">>,
   DimLabOrder |->
     <<"lab_order_id", "lab_test_code", "lab_name", "lab_result_value",
       "lab_result_units", "lab_result_date">>,
   FactVisit |->
     <<"visit_id", "patient_id", "insurance_id", "billing_id", "provider_id",
       "location_id", "primary_diagnosis_id", "secondary_diagnosis_id",
       "treatment_id", "prescription_id", "lab_order_id", "visit_datetime",
       "visit_type">>]

\* the tables in the order write_csv_files writes them
TableNames ==
  <<"DimPatient", "DimInsurance", "DimBilling", "DimProvider", "DimLocation",
    "DimPrimaryDiagnosis", "DimSecondaryDiagnosis", "DimTreatment",
    "DimPrescription", "DimLabOrder", "FactVisit">>

\* the rows of a table: list(registry.values()), or self.visits
TableData(s, table_name) ==
  CASE table_name = "DimPatient" -> Values(s.patients)
    [] table_name = "DimInsurance" -> Values(s.insurances)
    [] table_name = "DimBilling" -> Values(s.billings)
    [] table_name = "DimProvider" -> Values(s.providers)
    [] table_name = "DimLocation" -> Values(s.locations)
    [] table_name = "DimPrimaryDiagnosis" -> Values(s.primary_diagnoses)
    [] table_name = "DimSecondaryDiagnosis" -> Values(s.secondary_diagnoses)
    [] table_name = "DimTreatment" -> Values(s.treatments)
    [] table_name = "DimPrescription" -> Values(s.prescriptions)
    [] table_name = "DimLabOrder" -> Values(s.lab_orders)
    [] table_name = "FactVisit" -> s.visits

\* str(n) of an int
IntText(n) == IF n < 0 THEN "-" \o Str(0 - n) ELSE Str(n)

\* str(f) of a float (values short enough for the plain decimal form)
FloatText(f) ==
  (IF f.neg THEN "-" ELSE "") \o
  (IF f.kind = "num"
   THEN Str(f.int) \o "." \o (IF f.frac = "" THEN "0" ELSE f.frac)
   ELSE f.kind)

\* the cells whose value is an int, and the columns whose value is a float
IntCells ==
  {<<"DimProvider", "provider_id">>, <<"DimLocation", "location_id">>,
   <<"DimPrimaryDiagnosis", "primary_diagnosis_id">>,
   <<"DimSecondaryDiagnosis", "secondary_diagnosis_id">>,
   <<"DimTreatment", "treatment_id">>,
   <<"DimPrescription", "prescription_duration_days">>,
   <<"FactVisit", "provider_id">>, <<"FactVisit", "location_id">>}

FloatColumns == {"billing_amount_paid", "billing_total_charge"}

\* the text csv.DictWriter writes for field k of a row of the table
CellText(table_name, k, row) ==
  IF <<table_name, k>> \in IntCells THEN IntText(row[k])
  ELSE IF k \in FloatColumns THEN FloatText(row[k])
  ELSE row[k]

\* writer.writerow({k: row.get(k, "") for k in schema})
Line(table_name, row) ==
  [n \in 1..Len(SCHEMAS[table_name]) |->
     CellText(table_name, SCHEMAS[table_name][n], row)]

\* files: the output directory, a mapping from table name to file
_write_csv_optimized(files, table_name, data) ==
  IF data = <<>> THEN files
  ELSE Put(files, table_name,
           <<SCHEMAS[table_name]>> \o
             [n \in 1..Len(data) |-> Line(table_name, data[n])])

\* for table_name, data in tables.items():
\*     self._write_csv_optimized(table_name, data)
RECURSIVE WriteTables(_, _, _)
WriteTables(files, s, n) ==
  IF n > Len(TableNames) THEN files
  ELSE WriteTables(
         _write_csv_optimized(files, TableNames[n], TableData(s, TableNames[n])),
         s, n + 1)

write_csv_files(files, s) == WriteTables(files, s, 1)

\* the value csv.DictReader gives for a column of a line of the file
Cell(file, line, column) ==
  line[CHOOSE n \in 1..Len(file[1]) : file[1][n] = column]

\* the lines after the header
DataLines(file) == {file[n] : n \in 2..Len(file)}

\* the foreign keys of FactVisit and the tables they reference
foreign_keys ==
  [patient_id |-> "DimPatient", insurance_id |-> "DimInsurance",
   billing_id |-> "DimBilling", provider_id |-> "DimProvider",
   location_id |-> "DimLocation",
   primary_diagnosis_id |-> "DimPrimaryDiagnosis",
   secondary_diagnosis_id |-> "DimSecondaryDiagnosis",
   treatment_id |-> "DimTreatment", prescription_id |-> "DimPrescription",
   lab_order_id |-> "DimLabOrder"]

\* primary_keys[table]: the non-empty values of the first column
primary_keys(files, table) ==
  {Cell(Get(files, table), line, SCHEMAS[table][1]) :
     line \in DataLines(Get(files, table))} \ {""}

\* the test that skips a foreign key: only the empty text is skipped
fk_skipped(text) == text = ""

verify_referential_integrity(files) ==
  Has(files, "FactVisit") =>
    \A line \in DataLines(Get(files, "FactVisit")) :
      \A fk_column \in DOMAIN foreign_keys :
        \/ fk_skipped(Cell(Get(files, "FactVisit"), line, fk_column))
        \/ ~Has(files, foreign_keys[fk_column])
        \/ Cell(Get(files, "FactVisit"), line, fk_column)
             \in primary_keys(files, foreign_keys[fk_column])

(***************************************************************************)
(* State: the fields of the DataProcessor, the locals of process_data      *)
(* (input: the rows the reader has delivered; batch; total_rows), the      *)
(* position of the run (pc, and i: the row of the batch process_batch is   *)
(* at), status_writes: the assignments to patient_status made so far,      *)
(* output: the output directory and whether write_csv_files has run, and   *)
(* referential_integrity: the verdict of the verifier's check.             *)
(***************************************************************************)
VARIABLES patients, insurances, billings, providers, locations,
          primary_diagnoses, secondary_diagnoses, treatments, prescriptions,
          lab_orders, visits, provider_lookup, location_lookup,
          primary_diagnosis_lookup, secondary_diagnosis_lookup,
          treatment_lookup, processed_visit_ids, patient_visit_dates,
          batch_size, input, batch, total_rows, pc, i, status_writes,
          output, referential_integrity

\* a use of the date normalizer on its own: the text parse_date is given,
\* and the values its successive applications have returned
VARIABLES date_str, normalized

normalizer == <<date_str, normalized>>

fields == <<patients, insurances, billings, providers, locations,
            primary_diagnoses, secondary_diagnoses, treatments, prescriptions,
            lab_orders, visits, provider_lookup, location_lookup,
            primary_diagnosis_lookup, secondary_diagnosis_lookup,
            treatment_lookup, processed_visit_ids, patient_visit_dates>>

vars == <<fields, batch_size, input, batch, total_rows, pc, i, status_writes,
          output, referential_integrity, normalizer>>

Self ==
  [patients |-> patients, insurances |-> insurances, billings |-> billings,
   providers |-> providers, locations |-> locations,
   primary_diagnoses |-> primary_diagnoses,
   secondary_diagnoses |-> secondary_diagnoses, treatments |-> treatments,
   prescriptions |-> prescriptions, lab_orders |-> lab_orders, visits |-> visits,
   provider_lookup |-> provider_lookup, location_lookup |-> location_lookup,
   primary_diagnosis_lookup |-> primary_diagnosis_lookup,
   secondary_diagnosis_lookup |-> secondary_diagnosis_lookup,
   treatment_lookup |-> treatment_lookup,
   processed_visit_ids |-> processed_visit_ids,
   patient_visit_dates |-> patient_visit_dates]

\* the processor is left in state s
Becomes(s) ==
  /\ patients' = s.patients
  /\ insurances' = s.insurances
  /\ billings' = s.billings
  /\ providers' = s.providers
  /\ locations' = s.locations
  /\ primary_diagnoses' = s.primary_diagnoses
  /\ secondary_diagnoses' = s.secondary_diagnoses
  /\ treatments' = s.treatments
  /\ prescriptions' = s.prescriptions
  /\ lab_orders' = s.lab_orders
  /\ visits' = s.visits
  /\ provider_lookup' = s.provider_lookup
  /\ location_lookup' = s.location_lookup
  /\ primary_diagnosis_lookup' = s.primary_diagnosis_lookup
  /\ secondary_diagnosis_lookup' = s.secondary_diagnosis_lookup
  /\ treatment_lookup' = s.treatment_lookup
  /\ processed_visit_ids' = s.processed_visit_ids
  /\ patient_visit_dates' = s.patient_visit_dates

\* DataProcessor(batch_size), before process_data reads its first row
Init ==
  /\ patients = <<>> /\ insurances = <<>> /\ billings = <<>>
  /\ providers = <<>> /\ locations = <<>> /\ primary_diagnoses = <<>>
  /\ secondary_diagnoses = <<>> /\ treatments = <<>> /\ prescriptions = <<>>
  /\ lab_orders = <<>> /\ visits = <<>>
  /\ provider_lookup = <<>> /\ location_lookup = <<>>
  /\ primary_diagnosis_lookup = <<>> /\ secondary_diagnosis_lookup = <<>>
  /\ treatment_lookup = <<>>
  /\ processed_visit_ids = {} /\ patient_visit_dates = <<>>
  /\ batch_size \in 1..MaxBatch
  /\ input = <<>>
  /\ batch = <<>>
  /\ total_rows = 0
  /\ pc = "read"
  /\ i = 1
  /\ status_writes = <<>>
  /\ output = [written |-> FALSE, files |-> <<>>]
  /\ referential_integrity = "unchecked"
  /\ date_str = ""
  /\ normalized = <<>>

\* one iteration of "for row in reader": the row joins the batch, and a full
\* batch is handed to process_batch
ReadRow ==
  /\ pc = "read"
  /\ Len(input) < MaxRows
  /\ \E row \in RowPool :
       /\ input' = Append(input, row)
       /\ batch' = Append(batch, row)
  /\ total_rows' = total_rows + 1
  /\ pc' = IF Len(batch) + 1 >= batch_size THEN "batch" ELSE "read"
  /\ i' = 1
  /\ UNCHANGED <<normalizer, fields, batch_size, status_writes, output,
                 referential_integrity>>

\* the bug of leaving out "if batch: self.process_batch(batch)"
EndOfInput_drops_remaining_rows ==
  /\ pc = "read"
  /\ pc' = "resolve"
  /\ i' = 1
  /\ UNCHANGED <<normalizer, fields, batch_size, input, batch, total_rows, status_writes,
                 output, referential_integrity>>

\* the reader is exhausted: the remaining rows, if any, are processed
EndOfInput ==
  /\ pc = "read"
  /\ pc' = IF batch # <<>> THEN "tail" ELSE "resolve"
  /\ i' = 1
  /\ UNCHANGED <<normalizer, fields, batch_size, input, batch, total_rows, status_writes,
                 output, referential_integrity>>

\* one iteration of process_batch: _process_row on row i of the batch; after
\* the last row the batch is cleared (in the read loop) or the run goes on
\* to the resolver (after the remaining rows)
ProcessRow ==
  /\ pc \in {"batch", "tail"}
  /\ ~_process_row(Self, batch[i]).raised
  /\ Becomes(_process_row(Self, batch[i]).self)
  /\ IF i < Len(batch)
     THEN i' = i + 1 /\ UNCHANGED <<pc, batch>>
     ELSE /\ i' = 1
          /\ pc' = IF pc = "batch" THEN "read" ELSE "resolve"
          /\ batch' = IF pc = "batch" THEN <<>> ELSE batch
  /\ UNCHANGED <<normalizer, batch_size, input, total_rows, status_writes, output,
                 referential_integrity>>

\* _process_row raises: the exception leaves process_batch, process_data and
\* main, and the run ends with what the row had done so far
RowRaises ==
  /\ pc \in {"batch", "tail"}
  /\ _process_row(Self, batch[i]).raised
  /\ Becomes(_process_row(Self, batch[i]).self)
  /\ pc' = "crashed"
  /\ UNCHANGED <<normalizer, batch_size, input, batch, total_rows, i, status_writes,
                 output, referential_integrity>>

\* self._update_patient_statuses() at the end of process_data
UpdatePatientStatuses ==
  /\ pc = "resolve"
  /\ LET st == _update_patient_statuses(
                 [patients |-> patients, writes |-> status_writes],
                 patient_visit_dates)
     IN /\ patients' = st.patients
        /\ status_writes' = st.writes
  /\ pc' = "done"
  /\ UNCHANGED <<normalizer, insurances, billings, providers, locations, primary_diagnoses,
                 secondary_diagnoses, treatments, prescriptions, lab_orders,
                 visits, provider_lookup, location_lookup,
                 primary_diagnosis_lookup, secondary_diagnosis_lookup,
                 treatment_lookup, processed_visit_ids, patient_visit_dates,
                 batch_size, input, batch, total_rows, i, output,
                 referential_integrity>>

\* processor.write_csv_files() in main, after process_data has returned
WriteCsvFiles ==
  /\ pc = "done"
  /\ ~output.written
  /\ output' = [written |-> TRUE, files |-> write_csv_files(output.files, Self)]
  /\ UNCHANGED <<normalizer, fields, batch_size, input, batch, total_rows, pc, i,
                 status_writes, referential_integrity>>

\* verify_referential_integrity("output") of the verifier, run on the files
\* the run has written
VerifyReferentialIntegrity ==
  /\ output.written
  /\ referential_integrity = "unchecked"
  /\ referential_integrity' =
       IF verify_referential_integrity(output.files) THEN "passed" ELSE "failed"
  /\ UNCHANGED <<normalizer, fields, batch_size, input, batch, total_rows, pc, i,
                 status_writes, output>>

Next ==
  \/ ReadRow
  \/ EndOfInput
  \/ ProcessRow
  \/ RowRaises
  \/ UpdatePatientStatuses
  \/ WriteCsvFiles
  \/ VerifyReferentialIntegrity

Spec == Init /\ [][Next]_vars

(***************************************************************************)
(* The date normalizer on its own: parse_date is given a text drawn from   *)
(* the four layouts (with years, months and days that are padded or not,   *)
(* valid or not), the empty text and texts in no layout, and is applied    *)
(* again to what it returned.                                              *)
(***************************************************************************)
MaxCalls == 2

DateYears == {"2023", "1980", "0999"}
DateMonths == {"03", "12", "02", "2", "13"}
DateDays == {"15", "01", "30", "5"}

DateStrings ==
  UNION {{y \o "-" \o m \o "-" \o d, m \o "/" \o d \o "/" \o y,
          d \o "-" \o m \o "-" \o y, y \o "/" \o m \o "/" \o d} :
           y \in DateYears, m \in DateMonths, d \in DateDays}
    \cup {"", "garbage", "20230315", "2023-03-15T10:00", "2023-03- 5",
          "03/15/23", "0000-01-01"}

ParseDateInit ==
  /\ patients = <<>> /\ insurances = <<>> /\ billings = <<>>
  /\ providers = <<>> /\ locations = <<>> /\ primary_diagnoses = <<>>
  /\ secondary_diagnoses = <<>> /\ treatments = <<>> /\ prescriptions = <<>>
  /\ lab_orders = <<>> /\ visits = <<>>
  /\ provider_lookup = <<>> /\ location_lookup = <<>>
  /\ primary_diagnosis_lookup = <<>> /\ secondary_diagnosis_lookup = <<>>
  /\ treatment_lookup = <<>>
  /\ processed_visit_ids = {} /\ patient_visit_dates = <<>>
  /\ batch_size = MaxBatch
  /\ input = <<>>
  /\ batch = <<>>
  /\ total_rows = 0
  /\ pc = "read"
  /\ i = 1
  /\ status_writes = <<>>
  /\ output = [written |-> FALSE, files |-> <<>>]
  /\ referential_integrity = "unchecked"
  /\ date_str \in DateStrings
  /\ normalized = <<>>

\* self.parse_date(...) on the text, then on the value it returned
ParseDate ==
  /\ Len(normalized) < MaxCalls
  /\ normalized' =
       Append(normalized,
              parse_date(IF normalized = <<>> THEN date_str
                         ELSE normalized[Len(normalized)]))
  /\ UNCHANGED <<fields, batch_size, input, batch, total_rows, pc, i,
                 status_writes, output, referential_integrity, date_str>>

ParseDateNext == ParseDate

ParseDateSpec == ParseDateInit /\ [][ParseDateNext]_vars

(***************************************************************************)
(* Notions the properties are stated in.                                   *)
(***************************************************************************)
TypeOK ==
  /\ pc \in {"read", "batch", "tail", "resolve", "done", "crashed"}
  /\ batch_size \in 1..MaxBatch
  /\ total_rows = Len(input)
  /\ Len(batch) <= Len(input)

\* the run is over: process_data has returned, or an exception has left it
Ended == pc \in {"done", "crashed"}

\* row n of the input is the first one with its visit id (it is not discarded)
Kept(n) == \A m \in 1..(n - 1) : input[m].visit_id # input[n].visit_id

\* the number of input rows _process_row has returned from
Completed ==
  IF pc \in {"resolve", "done"} THEN Len(input)
  ELSE IF pc = "read" THEN Len(input) - Len(batch)
  ELSE Len(input) - Len(batch) + (i - 1)

\* the input row a fact row was made from: the first one with its visit id
RowOf(f) ==
  input[CHOOSE n \in 1..Len(input) : input[n].visit_id = f.visit_id /\ Kept(n)]

\* the row _process_row is about to be called on
AtRow == pc \in {"batch", "tail"}

CurrentRow == batch[i]

Facts == {visits[n] : n \in 1..Len(visits)}

\* the ids of a registry as the emitted table renders them
IdTexts(d) == {Str(k) : k \in Keys(d)}

\* The composite-keyed dimensions: the row fields that make the key, whether
\* all of them are required (else any one suffices), registry and lookup.
CompositeDims ==
  {"provider", "location", "primary_diagnosis", "secondary_diagnosis", "treatment"}

Components(dim) ==
  CASE dim = "provider" -> <<"doctor_name", "doctor_title", "doctor_department">>
    [] dim = "location" -> <<"clinic_name", "room_number">>
    [] dim = "primary_diagnosis" ->
         <<"primary_diagnosis_code", "primary_diagnosis_desc">>
    [] dim = "secondary_diagnosis" ->
         <<"secondary_diagnosis_code", "secondary_diagnosis_desc">>
    [] dim = "treatment" -> <<"treatment_code", "treatment_desc">>

AllRequired(dim) == dim \in {"provider", "location"}

RegistryOf(dim) ==
  CASE dim = "provider" -> providers
    [] dim = "location" -> locations
    [] dim = "primary_diagnosis" -> primary_diagnoses
    [] dim = "secondary_diagnosis" -> secondary_diagnoses
    [] dim = "treatment" -> treatments

LookupOf(dim) ==
  CASE dim = "provider" -> provider_lookup
    [] dim = "location" -> location_lookup
    [] dim = "primary_diagnosis" -> primary_diagnosis_lookup
    [] dim = "secondary_diagnosis" -> secondary_diagnosis_lookup
    [] dim = "treatment" -> treatment_lookup

\* the component field values of a row, or of a dimension record
Tuple(dim, r) == [k \in 1..Len(Components(dim)) |-> r[Components(dim)[k]]]

\* the row names an entity of the dimension
Names(dim, row) ==
  IF AllRequired(dim) THEN \A k \in 1..Len(Components(dim)) : Tuple(dim, row)[k] # ""
  ELSE \E k \in 1..Len(Components(dim)) : Tuple(dim, row)[k] # ""

RECURSIVE Join(_, _)
Join(t, k) == IF k = Len(t) THEN t[k] ELSE t[k] \o "|" \o Join(t, k + 1)

\* the composite key text of a row
KeyText(dim, row) == Join(Tuple(dim, row), 1)

\* a fact row's reference into the dimension, and the reference that stands
\* for surrogate id n (an integer, or its text)
Ref(dim, f) == f[dim \o "_id"]

RefTo(dim, n) == IF AllRequired(dim) THEN n ELSE Str(n)

Unassigned(dim) == IF AllRequired(dim) THEN 0 ELSE ""

\* the reference the upsert of the dimension yields for a row
RefFor(dim, row) ==
  IF Names(dim, row) /\ Has(LookupOf(dim), KeyText(dim, row))
  THEN RefTo(dim, Get(LookupOf(dim), KeyText(dim, row)))
  ELSE Unassigned(dim)

(***************************************************************************)
(* C1.  Referential integrity: in every state, for every fact row and each *)
(* of its ten foreign keys, a value that is neither the empty string nor 0 *)
(* is the primary key of a record of the corresponding dimension registry  *)
(* (the three text-valued surrogate references are the text of the key).   *)
(***************************************************************************)
C1_ReferentialIntegrity ==
  \A f \in Facts :
    /\ f.patient_id # "" => Has(patients, f.patient_id)
    /\ f.insurance_id # "" => Has(insurances, f.insurance_id)
    /\ f.billing_id # "" => Has(billings, f.billing_id)
    /\ f.provider_id # 0 => Has(providers, f.provider_id)
    /\ f.location_id # 0 => Has(locations, f.location_id)
    /\ f.primary_diagnosis_id # "" =>
         f.primary_diagnosis_id \in IdTexts(primary_diagnoses)
    /\ f.secondary_diagnosis_id # "" =>
         f.secondary_diagnosis_id \in IdTexts(secondary_diagnoses)
    /\ f.treatment_id # "" => f.treatment_id \in IdTexts(treatments)
    /\ f.prescription_id # "" => Has(prescriptions, f.prescription_id)
    /\ f.lab_order_id # "" => Has(lab_orders, f.lab_order_id)

\* the run has ended with a fact row that references all ten dimensions and
\* one that leaves provider, location, prescription and lab order unassigned
C1_Witness ==
  /\ pc = "done"
  /\ \E f \in Facts :
       /\ f.patient_id # "" /\ f.insurance_id # "" /\ f.billing_id # ""
       /\ f.provider_id # 0 /\ f.location_id # 0
       /\ f.primary_diagnosis_id # "" /\ f.secondary_diagnosis_id # ""
       /\ f.treatment_id # "" /\ f.prescription_id # "" /\ f.lab_order_id # ""
  /\ \E f \in Facts :
       /\ f.provider_id = 0 /\ f.location_id = 0
       /\ f.prescription_id = "" /\ f.lab_order_id = ""

(***************************************************************************)
(* C2.  When the run is over, the fact table holds exactly one row per     *)
(* distinct visit id of the input, and that row carries the visit          *)
(* datetime, the visit type and the foreign keys of the first input row    *)
(* with that visit id.                                                     *)
(***************************************************************************)
C2_OneFactPerVisitId ==
  Ended =>
    /\ Len(visits) = Cardinality({input[n].visit_id : n \in 1..Len(input)})
    /\ \A n \in 1..Len(input) :
         Cardinality({k \in 1..Len(visits) :
                        visits[k].visit_id = input[n].visit_id}) = 1
    /\ \A f \in Facts :
         /\ f.visit_datetime = RowOf(f).visit_datetime
         /\ f.visit_type = RowOf(f).visit_type
         /\ f.patient_id = RowOf(f).patient_id
         /\ f.insurance_id = RowOf(f).insurance_id
         /\ f.billing_id = RowOf(f).billing_id
         /\ \A dim \in CompositeDims : Ref(dim, f) = RefFor(dim, RowOf(f))
         /\ f.prescription_id \in {RowOf(f).prescription_id, ""}
         /\ f.lab_order_id \in {RowOf(f).lab_order_id, ""}

(***************************************************************************)
(* C3.  After the Status Resolver has run, a patient's status is Active if *)
(* a non-discarded input row of that patient has a visit datetime that     *)
(* parses and is on or after 2022-01-01T00:00:00, and Inactive otherwise.  *)
(***************************************************************************)
IsRecent(datetime_str) ==
  IF _parse_datetime(datetime_str) = None THEN FALSE
  ELSE DtGeq(_parse_datetime(datetime_str), ACTIVE_START_DATE)

HasRecentVisit(patient_id) ==
  \E n \in 1..Len(input) :
    Kept(n) /\ input[n].patient_id = patient_id /\ IsRecent(input[n].visit_datetime)

C3_StatusResolved ==
  pc = "done" =>
    \A n \in 1..Len(patients) :
      patients[n].v.patient_status =
        IF HasRecentVisit(patients[n].k) THEN "Active" ELSE "Inactive"

\* resolved: an Active patient with an older and a recent visit, and an
\* Inactive one with no entry in the visit-date history
C3_Witness ==
  /\ pc = "done"
  /\ \E n \in 1..Len(patients) :
       /\ patients[n].v.patient_status = "Active"
       /\ Len(Get(patient_visit_dates, patients[n].k)) = 2
       /\ ~has_recent_visits(<<Get(patient_visit_dates, patients[n].k)[1]>>)
  /\ \E n \in 1..Len(patients) :
       /\ patients[n].v.patient_status = "Inactive"
       /\ ~Has(patient_visit_dates, patients[n].k)

(***************************************************************************)
(* C4.  In each composite-keyed dimension, in every state, the surrogate   *)
(* ids are exactly 1..n for n entries: the k-th distinct composite key to  *)
(* appear in the rows processed so far has id k, in the lookup and in the  *)
(* registry; and no step changes or removes the id a key has been given.   *)
(***************************************************************************)
\* the number of input rows whose dimension upserts have run
Entered == Completed + (IF pc = "crashed" THEN 1 ELSE 0)

\* the composite keys of the dimension in order of first appearance among
\* the first n input rows
RECURSIVE FirstSeen(_, _)
FirstSeen(dim, n) ==
  IF n = 0 THEN <<>>
  ELSE LET prev == FirstSeen(dim, n - 1)
           key == KeyText(dim, input[n])
       IN IF /\ Kept(n)
             /\ Names(dim, input[n])
             /\ \A k \in 1..Len(prev) : prev[k] # key
          THEN Append(prev, key)
          ELSE prev

C4_Sequential ==
  \A dim \in CompositeDims :
    /\ Len(LookupOf(dim)) = Len(FirstSeen(dim, Entered))
    /\ Len(RegistryOf(dim)) = Len(LookupOf(dim))
    /\ \A k \in 1..Len(LookupOf(dim)) :
         /\ LookupOf(dim)[k].k = FirstSeen(dim, Entered)[k]
         /\ LookupOf(dim)[k].v = k
         /\ RegistryOf(dim)[k].k = k
         /\ RegistryOf(dim)[k].v[dim \o "_id"] = k

C4_NeverReassigned ==
  \A dim \in CompositeDims :
    \A k \in 1..Len(LookupOf(dim)) :
      /\ Len(LookupOf(dim)') >= k
      /\ LookupOf(dim)'[k] = LookupOf(dim)[k]

C4_SurrogateIds == []C4_Sequential /\ [][C4_NeverReassigned]_vars

\* the run has ended with three secondary diagnoses, referenced as "1", "2"
\* and "3" by the first, second and third fact row
C4_Witness ==
  /\ pc = "done"
  /\ Len(secondary_diagnoses) = 3
  /\ Len(visits) = 3
  /\ \A k \in 1..3 : visits[k].secondary_diagnosis_id = Str(k)

(***************************************************************************)
(* C5.  In each composite-keyed dimension, two fact rows whose input rows  *)
(* have all component fields present carry the same surrogate id if and    *)
(* only if the component tuples of their input rows are equal, and the     *)
(* dimension record a fact row references carries the component values of  *)
(* the fact row's input row.                                               *)
(***************************************************************************)
AllPresent(dim, row) ==
  \A k \in 1..Len(Components(dim)) : Tuple(dim, row)[k] # ""

\* the dimension record a fact row references
DimRecord(dim, f) ==
  Get(RegistryOf(dim), IF AllRequired(dim) THEN Ref(dim, f) ELSE ToNat(Ref(dim, f)))

C5_SameIdIffSameTuple ==
  \A dim \in CompositeDims :
    /\ \A f, g \in Facts :
         AllPresent(dim, RowOf(f)) /\ AllPresent(dim, RowOf(g)) =>
           (Ref(dim, f) = Ref(dim, g) <=>
              Tuple(dim, RowOf(f)) = Tuple(dim, RowOf(g)))
    /\ \A f \in Facts :
         AllPresent(dim, RowOf(f)) =>
           /\ Ref(dim, f) # Unassigned(dim)
           /\ Tuple(dim, DimRecord(dim, f)) = Tuple(dim, RowOf(f))

(***************************************************************************)
(* C6.  Each natural-keyed registry (patient, insurance, billing,          *)
(* prescription, lab order) holds at most one record per key, under the    *)
(* key its id field carries; and no step changes a field of a record that  *)
(* is in a registry, except that the Status Resolver may change            *)
(* patient_status.                                                         *)
(***************************************************************************)
NaturalDims == {"patient", "insurance", "billing", "prescription", "lab_order"}

NaturalRegistry(dim) ==
  CASE dim = "patient" -> patients
    [] dim = "insurance" -> insurances
    [] dim = "billing" -> billings
    [] dim = "prescription" -> prescriptions
    [] dim = "lab_order" -> lab_orders

\* a patient record without its status
WithoutStatus(r) == [r EXCEPT !.patient_status = ""]

C6_OnePerKey ==
  \A dim \in NaturalDims :
    \A m, n \in 1..Len(NaturalRegistry(dim)) :
      /\ NaturalRegistry(dim)[n].v[dim \o "_id"] = NaturalRegistry(dim)[n].k
      /\ NaturalRegistry(dim)[m].k = NaturalRegistry(dim)[n].k => m = n

C6_FirstSeenWins ==
  \A dim \in NaturalDims :
    \A n \in 1..Len(NaturalRegistry(dim)) :
      /\ Len(NaturalRegistry(dim)') >= n
      /\ NaturalRegistry(dim)'[n].k = NaturalRegistry(dim)[n].k
      /\ IF dim = "patient" /\ pc = "resolve"
         THEN WithoutStatus(NaturalRegistry(dim)'[n].v) =
                WithoutStatus(NaturalRegistry(dim)[n].v)
         ELSE NaturalRegistry(dim)'[n].v = NaturalRegistry(dim)[n].v

C6_NaturalKeyed == []C6_OnePerKey /\ [][C6_FirstSeenWins]_vars

\* the run has ended after two kept rows with the same patient, insurance,
\* billing, prescription and lab order ids and other values in each of these
\* dimensions; every record carries the values of the first of the two
C6_Witness ==
  /\ pc = "done"
  /\ \E m, n \in 1..Len(input) :
       /\ m < n /\ Kept(m) /\ Kept(n)
       /\ input[n].patient_id = input[m].patient_id
       /\ input[n].patient_first_name # input[m].patient_first_name
       /\ Get(patients, input[m].patient_id).patient_first_name =
            input[m].patient_first_name
       /\ input[n].insurance_id = input[m].insurance_id
       /\ input[n].insurance_payer_name # input[m].insurance_payer_name
       /\ Get(insurances, input[m].insurance_id).insurance_payer_name =
            input[m].insurance_payer_name
       /\ input[n].billing_id = input[m].billing_id
       /\ input[n].billing_payment_status # input[m].billing_payment_status
       /\ Get(billings, input[m].billing_id).billing_payment_status =
            input[m].billing_payment_status
       /\ input[n].prescription_id = input[m].prescription_id
       /\ input[n].prescription_drug_name # input[m].prescription_drug_name
       /\ Get(prescriptions, input[m].prescription_id).prescription_drug_name =
            input[m].prescription_drug_name
       /\ input[n].lab_order_id = input[m].lab_order_id
       /\ input[n].lab_name # input[m].lab_name
       /\ Get(lab_orders, input[m].lab_order_id).lab_name = input[m].lab_name

(***************************************************************************)
(* C7.  Processing a row whose visit id is already in the seen-set changes *)
(* nothing: the registries, the composite-key lookups, the visit-date      *)
(* history, the seen-set and the fact list are the same after the row as   *)
(* before it, whatever the row's other fields hold.                        *)
(***************************************************************************)
C7_DuplicateVisitChangesNothing ==
  [][(AtRow /\ CurrentRow.visit_id \in processed_visit_ids) => fields' = fields]_vars

\* the run has ended after a discarded row that named a patient and a lab
\* order no kept row has named
C7_Witness ==
  /\ pc = "done"
  /\ \E n \in 1..Len(input) :
       /\ ~Kept(n)
       /\ ~Has(patients, input[n].patient_id)
       /\ input[n].lab_order_id # ""
       /\ lab_order_has_data(input[n])
       /\ ~Has(lab_orders, input[n].lab_order_id)

(***************************************************************************)
(* C8.  The state after the Status Resolver does not depend on the batch   *)
(* size: whatever batches the input was cut into, the registries, lookups, *)
(* fact rows and patient statuses are those of processing the input rows   *)
(* one after the other and resolving the statuses at the end.              *)
(***************************************************************************)
\* the processor after _process_row on the first n of the rows, in order
RECURSIVE RunRows(_, _)
RunRows(rows, n) ==
  IF n = 0 THEN NewProcessor ELSE _process_row(RunRows(rows, n - 1), rows[n]).self

Resolved(s) ==
  [s EXCEPT !.patients =
     _update_patient_statuses([patients |-> s.patients, writes |-> <<>>],
                              s.patient_visit_dates).patients]

C8_BatchSizeIndependent ==
  pc = "done" => Self = Resolved(RunRows(input, Len(input)))

\* the run has ended on three rows cut into a batch of two and a remaining
\* row, the third repeating the visit id of the first with other data
C8_Witness ==
  /\ pc = "done"
  /\ batch_size = 2
  /\ Len(input) = 3
  /\ input[3].visit_id = input[1].visit_id
  /\ input[3].patient_id # input[1].patient_id
  /\ Len(visits) = 2

(***************************************************************************)
(* C9.  Until the Status Resolver has run, every patient record keeps the  *)
(* placeholder status and no status has been written; the resolver runs    *)
(* only when every input row has been processed, writes the status of      *)
(* every patient exactly once, and changes nothing but patient_status; no  *)
(* step changes another field of a patient record; after the resolver      *)
(* nothing changes.                                                        *)
(***************************************************************************)
C9_Placeholder ==
  pc # "done" =>
    /\ status_writes = <<>>
    /\ \A n \in 1..Len(patients) : patients[n].v.patient_status = "Active"

C9_OncePerPatient ==
  pc = "done" =>
    /\ Keys(status_writes) = Keys(patients)
    /\ \A n \in 1..Len(patients) : Count(status_writes, patients[n].k) = 1

C9_AfterAllRows ==
  pc \in {"resolve", "done"} =>
    \A n \in 1..Len(input) :
      /\ input[n].visit_id \in processed_visit_ids
      /\ \E f \in Facts : f.visit_id = input[n].visit_id

C9_Step ==
  /\ \A n \in 1..Len(patients) :
       /\ Len(patients') >= n
       /\ patients'[n].k = patients[n].k
       /\ WithoutStatus(patients'[n].v) = WithoutStatus(patients[n].v)
       /\ pc # "resolve" => patients'[n].v = patients[n].v
  /\ pc = "resolve" =>
       /\ Len(patients') = Len(patients)
       /\ UNCHANGED <<insurances, billings, providers, locations,
                      primary_diagnoses, secondary_diagnoses, treatments,
                      prescriptions, lab_orders, visits, provider_lookup,
                      location_lookup, primary_diagnosis_lookup,
                      secondary_diagnosis_lookup, treatment_lookup,
                      processed_visit_ids, patient_visit_dates, input>>
  /\ pc = "done" => UNCHANGED <<fields, input, status_writes>>

C9_StatusWrittenOnceAtTheEnd ==
  /\ []C9_Placeholder
  /\ []C9_OncePerPatient
  /\ []C9_AfterAllRows
  /\ [][C9_Step]_vars

\* resolved: a patient whose history holds only an older visit and a
\* patient with no history, each written once, both Inactive
C9_Witness ==
  /\ pc = "done"
  /\ Len(patients) = 2
  /\ \A n \in 1..2 :
       /\ patients[n].v.patient_status = "Inactive"
       /\ Count(status_writes, patients[n].k) = 1
  /\ Len(patient_visit_dates) = 1

(***************************************************************************)
(* C10.  When a kept row carries a non-empty prescription id (lab order    *)
(* id) that is not yet in the registry: if one of the row's non-key        *)
(* attributes of the entity is a non-empty string, the entity is inserted  *)
(* and the row's fact row references it; if all of them are empty, nothing *)
(* is inserted and the fact row's reference is the empty string.           *)
(***************************************************************************)
\* the step processes a kept row
KeptRowStep == AtRow /\ CurrentRow.visit_id \notin processed_visit_ids

\* the step has appended the fact row of the row it processed
FactAppended == Len(visits') = Len(visits) + 1

C10_PrescriptionStep ==
  (KeptRowStep /\ CurrentRow.prescription_id # ""
     /\ ~Has(prescriptions, CurrentRow.prescription_id)) =>
    IF \/ CurrentRow.prescription_drug_name # ""
       \/ CurrentRow.prescription_dosage # ""
       \/ CurrentRow.prescription_frequency # ""
       \/ CurrentRow.prescription_duration_days # ""
    THEN /\ Has(prescriptions', CurrentRow.prescription_id)
         /\ FactAppended
         /\ visits'[Len(visits')].prescription_id = CurrentRow.prescription_id
    ELSE /\ prescriptions' = prescriptions
         /\ FactAppended
         /\ visits'[Len(visits')].prescription_id = ""

C10_LabOrderStep ==
  (KeptRowStep /\ CurrentRow.lab_order_id # ""
     /\ ~Has(lab_orders, CurrentRow.lab_order_id)
     /\ FactAppended) =>
    IF \/ CurrentRow.lab_test_code # ""
       \/ CurrentRow.lab_name # ""
       \/ CurrentRow.lab_result_value # ""
       \/ CurrentRow.lab_result_units # ""
       \/ CurrentRow.lab_result_date # ""
    THEN /\ Has(lab_orders', CurrentRow.lab_order_id)
         /\ visits'[Len(visits')].lab_order_id = CurrentRow.lab_order_id
    ELSE /\ lab_orders' = lab_orders
         /\ visits'[Len(visits')].lab_order_id = ""

C10_MaterialisedIffNonEmpty ==
  [][C10_PrescriptionStep /\ C10_LabOrderStep]_vars

(***************************************************************************)
(* C11.  Provider and location require all their component fields.  On a  *)
(* kept row with an empty component the upsert leaves registry and lookup  *)
(* unchanged and the fact row of the row stores the integer 0; on a kept   *)
(* row with all components present the fact row stores an integer >= 1.    *)
(* In every state a fact row's provider_id (location_id) is 0 exactly when *)
(* a component of its input row is empty.                                  *)
(***************************************************************************)
AllRequiredDims == {"provider", "location"}

\* the fact row the step has appended
NewFact == visits'[Len(visits')]

C11_Step ==
  KeptRowStep =>
    \A dim \in AllRequiredDims :
      IF AllPresent(dim, CurrentRow)
      THEN FactAppended => Ref(dim, NewFact) \in 1..Len(RegistryOf(dim)')
      ELSE /\ RegistryOf(dim)' = RegistryOf(dim)
           /\ LookupOf(dim)' = LookupOf(dim)
           /\ FactAppended => Ref(dim, NewFact) = 0

C11_Facts ==
  \A f \in Facts :
    \A dim \in AllRequiredDims :
      /\ Ref(dim, f) \in 0..Len(RegistryOf(dim))
      /\ Ref(dim, f) = 0 <=> ~AllPresent(dim, RowOf(f))

C11_AllFieldsRequired == []C11_Facts /\ [][C11_Step]_vars

\* the run has ended with a fact row of a row that has a doctor name and a
\* department but no title, and a room but no clinic (both references 0,
\* nothing registered under its key texts), and a fact row with both
\* references assigned
C11_Witness ==
  /\ pc = "done"
  /\ \E f \in Facts :
       /\ RowOf(f).doctor_name # "" /\ RowOf(f).doctor_title = ""
       /\ RowOf(f).clinic_name = "" /\ RowOf(f).room_number # ""
       /\ f.provider_id = 0 /\ f.location_id = 0
       /\ ~Has(provider_lookup, KeyText("provider", RowOf(f)))
       /\ ~Has(location_lookup, KeyText("location", RowOf(f)))
  /\ \E f \in Facts : f.provider_id >= 1 /\ f.location_id >= 1

(***************************************************************************)
(* C12.  Primary diagnosis, secondary diagnosis and treatment need one of  *)
(* (code, description).  On a kept row with one of them non-empty the      *)
(* upsert creates the entity under the next id, or reuses the entity of    *)
(* the row's key, and the fact row stores the text of that id; with both   *)
(* empty, registry and lookup are unchanged and the fact row stores the    *)
(* empty string.  A fact row's reference is the empty string or the text   *)
(* of a surrogate id of the registry, never 0.                             *)
(***************************************************************************)
AnyRequiredDims == {"primary_diagnosis", "secondary_diagnosis", "treatment"}

C12_Step ==
  KeptRowStep =>
    \A dim \in AnyRequiredDims :
      IF Names(dim, CurrentRow)
      THEN /\ Has(LookupOf(dim)', KeyText(dim, CurrentRow))
           /\ Has(RegistryOf(dim)', Get(LookupOf(dim)', KeyText(dim, CurrentRow)))
           /\ IF Has(LookupOf(dim), KeyText(dim, CurrentRow))
              THEN /\ LookupOf(dim)' = LookupOf(dim)
                   /\ RegistryOf(dim)' = RegistryOf(dim)
              ELSE /\ Len(LookupOf(dim)') = Len(LookupOf(dim)) + 1
                   /\ Len(RegistryOf(dim)') = Len(RegistryOf(dim)) + 1
                   /\ Tuple(dim, Get(RegistryOf(dim)', Len(RegistryOf(dim)'))) =
                        Tuple(dim, CurrentRow)
           /\ FactAppended =>
                Ref(dim, NewFact) =
                  Str(Get(LookupOf(dim)', KeyText(dim, CurrentRow)))
      ELSE /\ RegistryOf(dim)' = RegistryOf(dim)
           /\ LookupOf(dim)' = LookupOf(dim)
           /\ FactAppended => Ref(dim, NewFact) = ""

C12_Facts ==
  \A f \in Facts :
    \A dim \in AnyRequiredDims :
      /\ Ref(dim, f) \in {""} \cup IdTexts(RegistryOf(dim))
      /\ Ref(dim, f) = "" <=> ~Names(dim, RowOf(f))

C12_AnyFieldSuffices == []C12_Facts /\ [][C12_Step]_vars

\* the run has ended with a fact row whose input row has a treatment code
\* but no description and references a treatment, and a fact row whose
\* input row has neither and references none
C12_Witness ==
  /\ pc = "done"
  /\ \E f \in Facts :
       /\ RowOf(f).treatment_code # "" /\ RowOf(f).treatment_desc = ""
       /\ f.treatment_id \in IdTexts(treatments)
  /\ \E f \in Facts :
       /\ RowOf(f).secondary_diagnosis_code = ""
       /\ RowOf(f).secondary_diagnosis_desc # ""
       /\ f.secondary_diagnosis_id \in IdTexts(secondary_diagnoses)
       /\ f.treatment_id = "" /\ f.primary_diagnosis_id = ""

(***************************************************************************)
(* C13.  A kept row whose visit_datetime does not parse is fully recorded: *)
(* its visit id is marked seen, the dimension upserts run, and one fact    *)
(* row is appended that holds the raw visit_datetime text; only the        *)
(* visit-date history stays as it is.  A kept row whose visit_datetime     *)
(* parses appends exactly one timestamp, the parsed one, to the history of *)
(* its patient and leaves every other patient's history as it is.          *)
(***************************************************************************)
\* a patient's visit-date history (empty when the patient has none)
HistoryOf(d, patient_id) == IF Has(d, patient_id) THEN Get(d, patient_id) ELSE <<>>

\* the row of the step is recorded: seen, patient and sub-dimensions
\* registered, composite upserts reflected in the appended fact row
FullyRecorded ==
  /\ CurrentRow.visit_id \in processed_visit_ids'
  /\ Has(patients', CurrentRow.patient_id)
  /\ CurrentRow.insurance_id # "" => Has(insurances', CurrentRow.insurance_id)
  /\ CurrentRow.billing_id # "" => Has(billings', CurrentRow.billing_id)
  /\ FactAppended
  /\ NewFact.visit_id = CurrentRow.visit_id
  /\ NewFact.visit_datetime = CurrentRow.visit_datetime
  /\ \A dim \in CompositeDims :
       Ref(dim, NewFact) =
         IF Names(dim, CurrentRow)
         THEN RefTo(dim, Get(LookupOf(dim)', KeyText(dim, CurrentRow)))
         ELSE Unassigned(dim)

C13_Step ==
  KeptRowStep =>
    IF _parse_datetime(CurrentRow.visit_datetime) = None
    THEN /\ FullyRecorded
         /\ patient_visit_dates' = patient_visit_dates
    ELSE /\ HistoryOf(patient_visit_dates', CurrentRow.patient_id) =
              Append(HistoryOf(patient_visit_dates, CurrentRow.patient_id),
                     _parse_datetime(CurrentRow.visit_datetime))
         /\ \A p \in Keys(patient_visit_dates') \ {CurrentRow.patient_id} :
              /\ Has(patient_visit_dates, p)
              /\ Get(patient_visit_dates', p) = Get(patient_visit_dates, p)

C13_UnparseableStillRecorded == [][C13_Step]_vars

(***************************************************************************)
(* C14.  Whatever text billing_amount_paid, billing_total_charge and       *)
(* prescription_duration_days hold, processing a kept row does not raise   *)
(* and appends the row's fact row; a new billing record stores 0.0 for an  *)
(* empty or malformed amount, and a new prescription record stores 0 for   *)
(* an empty or malformed duration.                                         *)
(***************************************************************************)
\* the text is empty or not in the syntax float() accepts
Malformed(text) == text = "" \/ PyFloat(text).kind = "ValueError"

C14_Step ==
  KeptRowStep =>
    /\ pc' # "crashed"
    /\ FactAppended
    /\ (CurrentRow.billing_id # "" /\ ~Has(billings, CurrentRow.billing_id)) =>
         /\ Has(billings', CurrentRow.billing_id)
         /\ Malformed(CurrentRow.billing_amount_paid) =>
              Get(billings', CurrentRow.billing_id).billing_amount_paid = FloatZero
         /\ Malformed(CurrentRow.billing_total_charge) =>
              Get(billings', CurrentRow.billing_id).billing_total_charge = FloatZero
    /\ (CurrentRow.prescription_id # ""
          /\ ~Has(prescriptions, CurrentRow.prescription_id)
          /\ Has(prescriptions', CurrentRow.prescription_id)
          /\ Malformed(CurrentRow.prescription_duration_days)) =>
         Get(prescriptions', CurrentRow.prescription_id).prescription_duration_days = 0

C14_NumericTextNeverRaises == [][C14_Step]_vars

(***************************************************************************)
(* C15.  Once write_csv_files has run, the output directory holds all      *)
(* eleven table files, each with the table's schema as its header line,    *)
(* followed by one line per registry entry or fact row, also for a table   *)
(* that has no rows.                                                       *)
(***************************************************************************)
C15_AllTablesEmitted ==
  output.written =>
    \A n \in 1..Len(TableNames) :
      /\ Has(output.files, TableNames[n])
      /\ Get(output.files, TableNames[n])[1] = SCHEMAS[TableNames[n]]
      /\ Len(Get(output.files, TableNames[n])) =
           1 + Len(TableData(Self, TableNames[n]))

(***************************************************************************)
(* C16.  Every row of a natural-keyed dimension table (patient, insurance, *)
(* billing, prescription, lab order) has an input row with the same        *)
(* natural id whose source fields are identical, as text, to every field   *)
(* of the table row except patient_status.                                 *)
(***************************************************************************)
NaturalTables ==
  {"DimPatient", "DimInsurance", "DimBilling", "DimPrescription", "DimLabOrder"}

\* the columns of a table that are copied from the source
SourceColumns(table_name) ==
  {n \in 1..Len(SCHEMAS[table_name]) : SCHEMAS[table_name][n] # "patient_status"}

C16_IdenticalToSource ==
  \A table_name \in NaturalTables :
    Has(output.files, table_name) =>
      \A line \in DataLines(Get(output.files, table_name)) :
        \E n \in 1..Len(input) :
          \A c \in SourceColumns(table_name) :
            line[c] = input[n][SCHEMAS[table_name][c]]

(***************************************************************************)
(* C17.  After the run every patient_id that occurs in an input row has    *)
(* exactly one record in the patient registry, the one created from the    *)
(* first input row that names that patient_id; every non-empty             *)
(* insurance_id and billing_id that occurs in the input has a record in    *)
(* its registry.                                                           *)
(***************************************************************************)
\* the first input row whose field holds the id
FirstRowWith(field, id) ==
  input[CHOOSE n \in 1..Len(input) :
          /\ input[n][field] = id
          /\ \A m \in 1..(n - 1) : input[m][field] # id]

\* the record _process_patient stores for a row
PatientRecord(row) ==
  Get(_process_patient(NewProcessor, row, row.patient_id).patients,
      row.patient_id)

C17_EveryInputIdRecorded ==
  Ended =>
    \A n \in 1..Len(input) :
      /\ Cardinality({m \in 1..Len(patients) :
                        patients[m].k = input[n].patient_id}) = 1
      /\ WithoutStatus(Get(patients, input[n].patient_id)) =
           WithoutStatus(PatientRecord(
             FirstRowWith("patient_id", input[n].patient_id)))
      /\ input[n].insurance_id # "" => Has(insurances, input[n].insurance_id)
      /\ input[n].billing_id # "" => Has(billings, input[n].billing_id)

(***************************************************************************)
(* C18.  The date normalizer is idempotent and total: normalizing twice    *)
(* gives what normalizing once gives; a text already in canonical          *)
(* YYYY-MM-DD form is returned unchanged; a text in one of the layouts     *)
(* MM/DD/YYYY, DD-MM-YYYY, YYYY/MM/DD is returned as canonical YYYY-MM-DD; *)
(* the empty text and a text in no layout are returned unchanged; no       *)
(* input raises.                                                           *)
(***************************************************************************)
\* four digits, two digits and two digits that name a day of the calendar
CalendarDay(y, m, d) ==
  /\ AllDigits(y) /\ AllDigits(m) /\ AllDigits(d)
  /\ ToNat(y) >= 1
  /\ ToNat(m) \in 1..12
  /\ ToNat(d) \in 1..DaysInMonth(ToNat(y), ToNat(m))

\* the year, month and day digits of a ten-character text in a layout
LayoutFields(s) ==
  CASE Ch(s, 5) = "-" /\ Ch(s, 8) = "-" ->
         <<SubSeq(s, 1, 4), SubSeq(s, 6, 7), SubSeq(s, 9, 10)>>
    [] Ch(s, 3) = "/" /\ Ch(s, 6) = "/" ->
         <<SubSeq(s, 7, 10), SubSeq(s, 1, 2), SubSeq(s, 4, 5)>>
    [] Ch(s, 3) = "-" /\ Ch(s, 6) = "-" ->
         <<SubSeq(s, 7, 10), SubSeq(s, 4, 5), SubSeq(s, 1, 2)>>
    [] Ch(s, 5) = "/" /\ Ch(s, 8) = "/" ->
         <<SubSeq(s, 1, 4), SubSeq(s, 6, 7), SubSeq(s, 9, 10)>>
    [] OTHER -> <<"", "", "">>

\* the text is a calendar day written in one of the four layouts
InLayout(s) ==
  /\ Len(s) = 10
  /\ LayoutFields(s)[1] # ""
  /\ CalendarDay(LayoutFields(s)[1], LayoutFields(s)[2], LayoutFields(s)[3])

\* its canonical form
CanonicalForm(s) ==
  LayoutFields(s)[1] \o "-" \o LayoutFields(s)[2] \o "-" \o LayoutFields(s)[3]

\* no layout of DATE_FORMATS parses the text
InNoLayout(s) ==
  \A k \in 1..Len(DATE_FORMATS) : StrptimeFmt(s, DATE_FORMATS[k]) = None

C18_DateNormalizer ==
  /\ Len(normalized) >= 1 =>
       /\ InLayout(date_str) => normalized[1] = CanonicalForm(date_str)
       /\ (date_str = "" \/ InNoLayout(date_str)) => normalized[1] = date_str
  /\ \A n \in 2..Len(normalized) : normalized[n] = normalized[n - 1]

(***************************************************************************)
(* C19.  The verifier's referential-integrity check accepts every output   *)
(* the core can produce: run on the emitted tables it returns True; a fact *)
(* row's unassigned provider_id or location_id, rendered as 0, is skipped  *)
(* like an empty foreign key.                                              *)
(***************************************************************************)
C19_VerifierAccepts == referential_integrity # "failed"

(***************************************************************************)
(* C20.  For prescription and lab order: when a kept row carries a source  *)
(* id that is already in the registry, the registry is not changed and the *)
(* row's fact row references that id, even if all the row's non-key        *)
(* attributes are empty; conversely the fact row's reference is empty only *)
(* if the row's source id is empty or is not in the registry after the     *)
(* row's upsert.                                                           *)
(***************************************************************************)
OptionalDims == {"prescription", "lab_order"}

\* the row has no data for the dimension, as the upsert tests it
NoData(dim, row) ==
  IF dim = "prescription" THEN ~prescription_has_data(row)
  ELSE ~lab_order_has_data(row)

C20_Step ==
  \A dim \in OptionalDims :
    KeptRowStep =>
      /\ (CurrentRow[dim \o "_id"] # ""
            /\ Has(NaturalRegistry(dim), CurrentRow[dim \o "_id"])) =>
           /\ NaturalRegistry(dim)' = NaturalRegistry(dim)
           /\ FactAppended => NewFact[dim \o "_id"] = CurrentRow[dim \o "_id"]
      /\ (FactAppended /\ NewFact[dim \o "_id"] = "") =>
           \/ CurrentRow[dim \o "_id"] = ""
           \/ ~Has(NaturalRegistry(dim)', CurrentRow[dim \o "_id"])

C20_ExistingIdIsReferenced == [][C20_Step]_vars

\* a kept row with a prescription id and a lab order id of an earlier row
\* and no data for either has a fact row that references both, and a kept
\* row with a prescription id and no data that was never stored has a fact
\* row with no prescription
C20_Witness ==
  /\ \E m, n \in 1..Len(visits) :
       /\ m < n
       /\ \A dim \in OptionalDims :
            /\ NoData(dim, RowOf(visits[n]))
            /\ ~NoData(dim, RowOf(visits[m]))
            /\ RowOf(visits[m])[dim \o "_id"] = RowOf(visits[n])[dim \o "_id"]
            /\ visits[n][dim \o "_id"] = RowOf(visits[n])[dim \o "_id"]
            /\ visits[n][dim \o "_id"] # ""
  /\ \E n \in 1..Len(visits) :
       /\ RowOf(visits[n]).prescription_id # ""
       /\ visits[n].prescription_id = ""
       /\ ~Has(prescriptions, RowOf(visits[n]).prescription_id)

(***************************************************************************)
(* C21.  Sub-dimension references are consistent after any sequence of     *)
(* rows: every billing record's insurance_id is the insurance_id of the    *)
(* row that first introduced the billing id and, if non-empty, is in the   *)
(* insurance registry; every insurance record's patient_id is the          *)
(* patient_id of the first kept row carrying the insurance id and is in    *)
(* the patient registry.                                                   *)
(***************************************************************************)
\* input row n is the first kept row whose field holds the id
FirstKeptWith(n, field, id) ==
  /\ Kept(n)
  /\ input[n][field] = id
  /\ \A m \in 1..(n - 1) : Kept(m) => input[m][field] # id

C21_References ==
  /\ \A b \in 1..Len(billings) :
       \E n \in 1..Len(input) :
         /\ FirstKeptWith(n, "billing_id", billings[b].k)
         /\ billings[b].v.insurance_id = input[n].insurance_id
         /\ input[n].insurance_id # "" =>
              Has(insurances, billings[b].v.insurance_id)
  /\ \A k \in 1..Len(insurances) :
       \E n \in 1..Len(input) :
         /\ FirstKeptWith(n, "insurance_id", insurances[k].k)
         /\ insurances[k].v.patient_id = input[n].patient_id
         /\ Has(patients, insurances[k].v.patient_id)

C21_SubDimensionReferences == []C21_References

\* the run has ended after two kept rows that carry the same billing id with
\* different insurance ids, and two kept rows that carry the same insurance
\* id with different patient ids; the records hold the references of the
\* first row of each pair
C21_Witness ==
  /\ pc = "done"
  /\ \E m, n \in 1..Len(input) :
       /\ m < n /\ Kept(m) /\ Kept(n)
       /\ input[m].billing_id = input[n].billing_id
       /\ input[m].insurance_id # ""
       /\ input[n].insurance_id # input[m].insurance_id
       /\ Get(billings, input[m].billing_id).insurance_id = input[m].insurance_id
  /\ \E m, n \in 1..Len(input) :
       /\ m < n /\ Kept(m) /\ Kept(n)
       /\ input[m].insurance_id = input[n].insurance_id
       /\ input[m].insurance_id # ""
       /\ input[n].patient_id # input[m].patient_id
       /\ Get(insurances, input[m].insurance_id).patient_id = input[m].patient_id

(***************************************************************************)
(* C22.  After any sequence of processed rows the set of seen visit ids is *)
(* the set of the visit ids of the fact rows, no two fact rows share a     *)
(* visit id, the fact list only grows (a fact row is never removed or      *)
(* modified), and the fact rows are in the order of the first occurrence   *)
(* of their visit ids in the input.                                        *)
(***************************************************************************)
\* the place in the input of the first row with the visit id
FirstOccurrence(visit_id) ==
  CHOOSE n \in 1..Len(input) : input[n].visit_id = visit_id /\ Kept(n)

C22_SeenAreFacts ==
  processed_visit_ids = {visits[n].visit_id : n \in 1..Len(visits)}

C22_NoDuplicates ==
  \A m, n \in 1..Len(visits) : visits[m].visit_id = visits[n].visit_id => m = n

C22_InInputOrder ==
  \A m, n \in 1..Len(visits) :
    m < n => FirstOccurrence(visits[m].visit_id)
               < FirstOccurrence(visits[n].visit_id)

C22_OnlyGrows ==
  /\ Len(visits') >= Len(visits)
  /\ SubSeq(visits', 1, Len(visits)) = visits

C22_SeenSetMatchesFacts ==
  [](C22_SeenAreFacts /\ C22_NoDuplicates /\ C22_InInputOrder)
    /\ [][C22_OnlyGrows]_vars

(***************************************************************************)
(* C23.  After any sequence of processed rows every patient id with an     *)
(* entry in the visit-date history is in the patient registry, every       *)
(* history list is non-empty, and the number of history timestamps of all  *)
(* patients together is the number of fact rows whose visit_datetime       *)
(* parsed (so it never exceeds the number of fact rows).                   *)
(***************************************************************************)
\* the number of timestamps in the first n entries of the history
RECURSIVE CountTimestamps(_, _)
CountTimestamps(d, n) ==
  IF n = 0 THEN 0 ELSE Len(d[n].v) + CountTimestamps(d, n - 1)

\* the fact rows whose visit_datetime parses
ParsedFacts ==
  {n \in 1..Len(visits) : _parse_datetime(visits[n].visit_datetime) # None}

C23_HistoryMatchesFacts ==
  /\ \A n \in 1..Len(patient_visit_dates) :
       /\ Has(patients, patient_visit_dates[n].k)
       /\ patient_visit_dates[n].v # <<>>
  /\ CountTimestamps(patient_visit_dates, Len(patient_visit_dates)) =
       Cardinality(ParsedFacts)
  /\ CountTimestamps(patient_visit_dates, Len(patient_visit_dates)) <=
       Len(visits)

(***************************************************************************)
(* C24.  For each composite-keyed dimension, after any sequence of rows    *)
(* the lookup and the registry are in one-to-one correspondence: the       *)
(* lookup's values are exactly the registry's keys, both have the same     *)
(* size, each record's id field is its registry key, and its component     *)
(* fields are those of the row that first produced the lookup key.         *)
(***************************************************************************)
\* input row n is the first kept row that produces the lookup key
FirstProduces(dim, n, key) ==
  /\ Kept(n) /\ Names(dim, input[n]) /\ KeyText(dim, input[n]) = key
  /\ \A m \in 1..(n - 1) :
       Kept(m) /\ Names(dim, input[m]) => KeyText(dim, input[m]) # key

C24_Correspondence ==
  \A dim \in CompositeDims :
    /\ {LookupOf(dim)[k].v : k \in 1..Len(LookupOf(dim))} = Keys(RegistryOf(dim))
    /\ Len(LookupOf(dim)) = Len(RegistryOf(dim))
    /\ Cardinality(Keys(LookupOf(dim))) = Len(LookupOf(dim))
    /\ Cardinality(Keys(RegistryOf(dim))) = Len(RegistryOf(dim))
    /\ \A k \in 1..Len(RegistryOf(dim)) :
         RegistryOf(dim)[k].v[dim \o "_id"] = RegistryOf(dim)[k].k
    /\ \A k \in 1..Len(LookupOf(dim)) :
         \E n \in 1..Len(input) :
           /\ FirstProduces(dim, n, LookupOf(dim)[k].k)
           /\ Tuple(dim, Get(RegistryOf(dim), LookupOf(dim)[k].v)) =
                Tuple(dim, input[n])

C24_LookupMatchesRegistry == []C24_Correspondence

\* the run has ended after two kept rows that produce the same provider key
\* from different component fields and the same primary diagnosis key; each
\* of the two registries holds one record, with the fields of the first row
C24_Witness ==
  /\ pc = "done"
  /\ \E m, n \in 1..Len(input) :
       /\ m < n /\ Kept(m) /\ Kept(n)
       /\ Names("provider", input[m]) /\ Names("provider", input[n])
       /\ KeyText("provider", input[m]) = KeyText("provider", input[n])
       /\ Tuple("provider", input[m]) # Tuple("provider", input[n])
       /\ Tuple("provider",
                Get(providers, Get(provider_lookup, KeyText("provider", input[m]))))
            = Tuple("provider", input[m])
       /\ Names("primary_diagnosis", input[m])
       /\ KeyText("primary_diagnosis", input[m]) =
            KeyText("primary_diagnosis", input[n])
       /\ Len(providers) = 1 /\ Len(provider_lookup) = 1
       /\ Len(primary_diagnoses) = 1 /\ Len(primary_diagnosis_lookup) = 1

====
